---- MODULE Spec2Model ----
(***************************************************************************)
(* Model of "Exemplifi SmartDoc InDesign Import.jsx" (latest revision,     *)
(* src/unnamed/part_002 lines 728-933): a single-threaded script that      *)
(* places a Word/RTF file into the active document, flows the story over   *)
(* new pages, sanitizes whitespace, maps paragraph styles, repairs         *)
(* bullets, styles tables and hyperlinks.                                  *)
(*                                                                         *)
(* The host (InDesign) is modelled only as far as the script reads or      *)
(* writes it: pages, text frames and their threading, the story's          *)
(* paragraphs, the paragraph-style registry and the interaction level.     *)
(* Text is a sequence of one-character tokens; a style name is a sequence  *)
(* of characters, so that the script's regular expressions are computed,   *)
(* not assumed.                                                            *)
(***************************************************************************)
EXTENDS Integers, Sequences, FiniteSets, TLC

VARIABLES
    pc,                        \* position of the script
    hasDoc,                    \* app.documents.length > 0
    importFile,                \* what File.openDialog returned (step 1)
    level,                     \* app.scriptPreferences.userInteractionLevel
    originalInteractionLevel,  \* the script's saved copy
    levelAtStart,              \* history: the level when the script was invoked
    pages,                     \* doc.pages, in document order
    pagesAtStart,              \* history: doc.pages.length when the script was invoked
    frames,                    \* all text frames ever created, by frame id
    targetFrame,               \* frame id of the first frame (0: not yet chosen)
    paragraphs,                \* story.paragraphs
    imported,                  \* history: story.paragraphs as place() delivered them
    registry,                  \* names in doc.paragraphStyles
    styles,                    \* the script's styles object (step 10)
    atPassA,                   \* history: story.paragraphs when Pass A started
    atPassB,                   \* history: story.paragraphs when step 12 started
    tables,                    \* story.tables
    hyperlinks,                \* doc.hyperlinks
    charStyles,                \* names in doc.characterStyles
    tableStyles,               \* names in doc.tableStyles
    i,                         \* loop index of step 8 (trim)
    j,                         \* loop index of step 11 (Pass A)
    k,                         \* loop index of step 12 (bullets)
    t,                         \* loop index of step 13 (tables)
    h,                         \* loop index of step 14 (hyperlinks)
    err,                       \* message of the caught Error ("" when none)
    outcome,                   \* what the script reported: none | success | fatal
    faulted,                   \* history: stages in which a host call has thrown
    prevWasBullet,             \* the rolling flag of normalizeBulletsAndLists (288)
    styleEdits,                \* names of the paragraph styles whose definition was written
    styleLines                 \* lines a paragraph takes in each style of the template

vars == <<pc, hasDoc, importFile, level, originalInteractionLevel, levelAtStart, pages,
          pagesAtStart, frames, targetFrame, paragraphs, imported, registry, styles,
          atPassA, atPassB, tables, hyperlinks, charStyles, tableStyles, i, j, k, t, h,
          err, outcome, faulted, prevWasBullet, styleEdits, styleLines>>

\* groups of variables, for the UNCHANGED clauses
interaction == <<level, originalInteractionLevel>>
layout == <<pages, frames, targetFrame>>
content == <<paragraphs, tables, hyperlinks>>
lookup == <<registry, charStyles, tableStyles, styles>>
history == <<hasDoc, importFile, levelAtStart, pagesAtStart, imported, atPassA, atPassB>>
loops == <<i, j, k, t, h>>
variant == <<prevWasBullet, styleEdits, styleLines>>

-----------------------------------------------------------------------------
(* Bounds of the model.                                                    *)

MaxParas == 3        \* paragraphs of an imported story
MaxInitPages == 2    \* pages of the template before the run
PageH == 2           \* page height, in text lines
MaxFaults == 1       \* host calls that throw in one run
MaxStyleParas == 2   \* paragraphs of a story in the style mapper's inputs

\* No story of MaxParas lines needs more pages than this unless the new
\* frames hold nothing; the page counter of the model stops here.
MaxPages == MaxInitPages + MaxParas + 1

-----------------------------------------------------------------------------
(* Characters and regular-expression classes.                              *)

SP == "sp"         \* U+0020
TAB == "tab"       \* \t
CR == "cr"         \* \r, the paragraph return
NL == "nl"         \* \n, a forced line break

\* \s of the script's JavaScript regular expressions
IsSpace(c) == c \in {SP, TAB, CR, NL}

Null == <<"null">>   \* JavaScript null: no style found

\* A template in whose styles every paragraph takes one line.
OneLine == [sn \in {} |-> 1]

RECURSIVE DropLeadingSpace(_)
DropLeadingSpace(s) ==
    IF s # <<>> /\ IsSpace(Head(s)) THEN DropLeadingSpace(Tail(s)) ELSE s

RECURSIVE DropTrailingSpace(_)
DropTrailingSpace(s) ==
    IF s # <<>> /\ IsSpace(s[Len(s)])
    THEN DropTrailingSpace(SubSeq(s, 1, Len(s) - 1))
    ELSE s

\* s.replace(/^\s+|\s+$/g, "")
TrimBoth(s) == DropTrailingSpace(DropLeadingSpace(s))

\* s.replace(/\s/g, "")
StripSpace(s) == SelectSeq(s, LAMBDA c : ~IsSpace(c))

\* Case folding of the /i flag, on the letters style names are written with.
ToLower(c) ==
    CASE c = "H" -> "h"
      [] c = "N" -> "n"
      [] c = "B" -> "b"
      [] c = "L" -> "l"
      [] c = "P" -> "p"
      [] c = "T" -> "t"
      [] c = "S" -> "s"
      [] OTHER -> c

Fold(s) == [n \in 1..Len(s) |-> ToLower(s[n])]

\* /pat/i.test(s): pat occurs somewhere in s, letter case ignored
TestI(pat, s) ==
    \E n \in 0..(Len(s) - Len(pat)) :
        SubSeq(Fold(s), n + 1, n + Len(pat)) = Fold(pat)

-----------------------------------------------------------------------------
(* Style names.                                                            *)

Digit(n) == CASE n = 1 -> "1" [] n = 2 -> "2" [] n = 3 -> "3"
              [] n = 4 -> "4" [] n = 5 -> "5" [] n = 6 -> "6"

HeadingName(n) == <<"H", "e", "a", "d", "i", "n", "g", " ", Digit(n)>>
LowerHeadingName(n) == Fold(HeadingName(n))
NormalName == <<"N", "o", "r", "m", "a", "l">>
BodyName == <<"B", "o", "d", "y">>
BulletsName == <<"B", "u", "l", "l", "e", "t", "s">>
SubBulletsName == <<"S", "u", "b", "-", "B", "u", "l", "l", "e", "t", "s">>
TableStyleName == <<"T", "a", "b", "l", "e", " ", "S", "t", "y", "l", "e", " ", "1">>
ListParagraphName == <<"L", "i", "s", "t", " ", "P", "a", "r", "a", "g", "r", "a", "p", "h">>
NoName == <<>>     \* the style name could not be read, or is empty
HeadingNormalName == HeadingName(1) \o <<" ">> \o <<"N", "o", "r", "m", "a", "l">>

HeadingLevels == 1..6

Levels == {"INTERACT_WITH_ALL", "INTERACT_WITH_ALERTS", "NEVER_INTERACT"}

-----------------------------------------------------------------------------
(* Pages, frames and the host's composition of the story.                  *)

PageW == 1

PageBounds == <<0, 0, PageH, PageW>>     \* [y1, x1, y2, x2]

\* Margins a template may carry; top = PageH or left = PageW leave no area.
Margins ==
    {[top |-> 0, left |-> 0, bottom |-> 0, right |-> 0],
     [top |-> 0, left |-> PageW, bottom |-> 0, right |-> 0]}
        \cup {[top |-> y, left |-> 0, bottom |-> 0, right |-> 0] : y \in 1..PageH}

NewPage(id, m) == [id |-> id, b |-> PageBounds, m |-> m]

\* geometricBounds of createFrameInsideMargins(page)
MutantFullPageBounds(page) == page.b
InsideMargins(page) ==
    <<page.b[1] + page.m.top, page.b[2] + page.m.left,
      page.b[3] - page.m.bottom, page.b[4] - page.m.right>>

\* page.textFrames.add({geometricBounds: ...}): a frame on that page, unthreaded
NewFrame(page, gb) == [page |-> page.id, gb |-> gb, next |-> 0]

createFrameInsideMargins(page) == NewFrame(page, InsideMargins(page))

\* Lines of text a frame displays: one per unit of height, none without area.
Capacity(f) ==
    IF f.gb[3] > f.gb[1] /\ f.gb[4] > f.gb[2] THEN f.gb[3] - f.gb[1] ELSE 0

\* story.textContainers: the frames threaded from the first frame, in order
RECURSIVE ChainFrom(_, _, _)
ChainFrom(fs, id, fuel) ==
    IF id = 0 \/ fuel = 0 THEN <<>>
    ELSE <<id>> \o ChainFrom(fs, fs[id].next, fuel - 1)

TextContainers(fs, first) == ChainFrom(fs, first, Len(fs))

RECURSIVE SumCapacity(_, _)
SumCapacity(fs, chain) ==
    IF chain = <<>> THEN 0
    ELSE Capacity(fs[Head(chain)]) + SumCapacity(fs, Tail(chain))

\* Lines a paragraph takes when composed: what its style's definition in
\* the template makes of it, one line in a style the file brought along.
LinesOf(para) ==
    IF para.style \in DOMAIN styleLines THEN styleLines[para.style] ELSE 1

RECURSIVE SumLines(_)
SumLines(paras) ==
    IF paras = <<>> THEN 0 ELSE LinesOf(Head(paras)) + SumLines(Tail(paras))

\* story.overflows: the lines of the story do not fit the chain
Overflows(fs, first, paras) == SumLines(paras) > SumCapacity(fs, TextContainers(fs, first))

\* position of a page in the document
PageIndex(ps, id) == CHOOSE n \in 1..Len(ps) : ps[n].id = id

\* doc.pages.add(LocationOptions.AFTER, doc.pages[at])
MutantPagesAddBefore(ps, at, page) == <<page>> \o ps
PagesAddAfter(ps, at, page) ==
    SubSeq(ps, 1, at) \o <<page>> \o SubSeq(ps, at + 1, Len(ps))

-----------------------------------------------------------------------------
(* Paragraphs.                                                             *)

Para(text, style) ==
    [contents |-> text, style |-> style, overrides |-> TRUE, listType |-> "NO_LIST",
     leftIndent |-> 0]

\* para.clearOverrides()
MutantKeepOverrides(para) == para
ClearOverrides(para) == [para EXCEPT !.overrides = FALSE]

-----------------------------------------------------------------------------
(* Host failures: a host call may throw, at most MaxFaults stages per run. *)

MayThrow(stage) == Cardinality(faulted \cup {stage}) <= MaxFaults

Throw(stage, msg) ==
    /\ MayThrow(stage)
    /\ faulted' = faulted \cup {stage}
    /\ err' = msg
    /\ pc' = "catch"

-----------------------------------------------------------------------------
(* Stories the importer may deliver in the whole-pipeline specification.   *)

Bullet == "U2022"       \* filled bullet
OpenCircle == "U25CB"   \* open circle
SmallCircle == "U25E6"  \* small open circle, in both glyph sets of step 12
Dash == "-"

SampleA ==
    <<Para(<<"a">>, HeadingName(1)),
      Para(<<SP>>, NormalName),
      Para(<<Bullet, TAB, "a">>, NormalName),
      Para(<<"o", SP, "a">>, ListParagraphName)>>

SampleB ==
    <<Para(<<SP, "a", SP>>, NormalName),
      Para(<<>>, NormalName),
      Para(<<>>, NormalName),
      Para(<<Dash, SP, "a">>, LowerHeadingName(3))>>

Cycle(sample, n) == [m \in 1..n |-> sample[((m - 1) % Len(sample)) + 1]]

StyleNamesOf(paras) == {paras[n].style : n \in 1..Len(paras)} \ {NoName}

TargetNames ==
    {BodyName, BulletsName, SubBulletsName, TableStyleName}
        \cup {HeadingName(n) : n \in HeadingLevels}

\* Tables and hyperlinks the importer may deliver with the story.
Table(style) == [style |-> style]
NoTableStyle == <<"[", "N", "o", "n", "e", "]">>

\* dest: the class of link.destination; url: the scheme of its
\* destinationURL ("none" for the classes that have no such property);
\* src: the class of link.source; len: the length of its sourceText
Link(dest, url, src, len) ==
    [dest |-> dest, url |-> url, src |-> src, len |-> len, charStyle |-> "[None]"]
LinksA == <<Link("URL", "https", "TEXT", 1), Link("PAGE", "none", "TEXT", 1)>>
LinksB == <<Link("URL", "https", "TEXT", 0), Link("URL", "mailto", "PAGE_ITEM", 0)>>

\* What one place() may deliver: a story of up to MaxParas paragraphs with
\* its tables and hyperlinks.
Import(s, ts, ls) == [story |-> s, tables |-> ts, links |-> ls]

Imports ==
    {Import(<<>>, <<>>, <<>>)}
        \cup {Import(Cycle(SampleA, n), <<Table(NoTableStyle)>>, LinksA) : n \in 1..MaxParas}
        \cup {Import(Cycle(SampleB, n), <<Table(NoTableStyle), Table(NoTableStyle)>>, LinksB) :
                  n \in 1..MaxParas}

HyperlinkStyleName == "Hyperlink Highlight"

NoStyles ==
    [body |-> Null, h1 |-> Null, h2 |-> Null, h3 |-> Null, h4 |-> Null, h5 |-> Null,
     h6 |-> Null, bullet |-> Null, subBullet |-> Null, table |-> Null]

-----------------------------------------------------------------------------
(* The script, step by step (line numbers of src/unnamed/part_002).        *)

\* 735-738: no open document: alert and exit(), before anything is touched
NoDocument ==
    /\ pc = "start"
    /\ ~hasDoc
    /\ pc' = "exited"
    /\ UNCHANGED <<variant, interaction, layout, content, lookup, history, loops, err, outcome,
                   faulted>>

\* 743: the value the script saves as originalInteractionLevel
MutantSaveAfterSuppress(current) == "NEVER_INTERACT"
SavedLevel(current) == current

\* 743-744: save the interaction level, then suppress dialogs
Acquire ==
    /\ pc = "start"
    /\ hasDoc
    /\ originalInteractionLevel' = SavedLevel(level)
    /\ level' = "NEVER_INTERACT"
    /\ pc' = "pick"
    /\ UNCHANGED <<variant, layout, content, lookup, history, loops, err, outcome, faulted>>

\* 748-751: File.openDialog; null (cancelled) and a missing file both throw
PickFile ==
    /\ pc = "pick"
    /\ \E file \in {"null", "missing", "ok"} :
          /\ importFile' = file
          /\ IF file = "ok"
             THEN /\ pc' = "frame"
                  /\ err' = err
             ELSE /\ pc' = "catch"
                  /\ err' = "No file selected or file does not exist."
    /\ UNCHANGED <<variant, interaction, layout, content, lookup, hasDoc, levelAtStart,
                   pagesAtStart, imported, atPassA, atPassB, loops, outcome, faulted>>

\* firstPage.textFrames: ids of the frames on a page
FramesOn(fs, pageId) == {f \in 1..Len(fs) : fs[f].page = pageId}

\* 770-771: the first page's first frame, or a new one inside its margins
GetFirstFrame ==
    /\ pc = "frame"
    /\ LET firstPage == pages[1]
           onFirst == FramesOn(frames, firstPage.id)
       IN  IF onFirst # {}
           THEN /\ targetFrame' = CHOOSE f \in onFirst : \A g \in onFirst : f <= g
                /\ frames' = frames
           ELSE /\ frames' = Append(frames, createFrameInsideMargins(firstPage))
                /\ targetFrame' = Len(frames) + 1
    /\ pc' = "place"
    /\ UNCHANGED <<variant, interaction, pages, content, lookup, history, loops, err, outcome,
                   faulted>>

\* 774-777: targetFrame.place(importFile); the importer delivers a story with
\* its tables and hyperlinks and registers the paragraph styles the story uses
Place ==
    /\ pc = "place"
    /\ \E d \in Imports :
          /\ paragraphs' = d.story
          /\ imported' = d.story
          /\ registry' = registry \cup StyleNamesOf(d.story)
          /\ tables' = d.tables
          /\ hyperlinks' = d.links
    /\ pc' = "paginate"
    /\ UNCHANGED <<variant, interaction, layout, charStyles, tableStyles, styles, hasDoc,
                   importFile, levelAtStart, pagesAtStart, atPassA, atPassB, loops, err,
                   outcome, faulted>>

\* 774-777: place() throws, or no story is found after placing
PlaceThrows ==
    /\ pc = "place"
    /\ Throw("place", "No story found after placing file.")
    /\ UNCHANGED <<variant, interaction, layout, content, lookup, history, loops, outcome>>

\* 784: story.textContainers[story.textContainers.length - 1]
MutantLinkFromFirst(fs, first) == first
LastContainer(fs, first) ==
    LET chain == TextContainers(fs, first) IN chain[Len(chain)]

\* 780-786, one iteration: a page after the last page, a frame inside its
\* margins, threaded after the chain's last frame
AddPage ==
    /\ pc = "paginate"
    /\ Overflows(frames, targetFrame, paragraphs)
    /\ Len(pages) < MaxPages
    /\ LET lastPage == pages[Len(pages)]
           newPage == NewPage(Len(pages) + 1, lastPage.m)
           newFrame == createFrameInsideMargins(newPage)
           newId == Len(frames) + 1
           tail == LastContainer(frames, targetFrame)
       IN  /\ pages' = PagesAddAfter(pages, Len(pages), newPage)
           /\ frames' = Append([frames EXCEPT ![tail].next = newId], newFrame)
    /\ UNCHANGED <<variant, pc, interaction, targetFrame, content, lookup, history, loops, err,
                   outcome, faulted>>

\* 782: doc.pages.add throws (nothing was added yet)
AddPageThrows ==
    /\ pc = "paginate"
    /\ Overflows(frames, targetFrame, paragraphs)
    /\ Throw("paginate", "Cannot add page.")
    /\ UNCHANGED <<variant, interaction, layout, content, lookup, history, loops, outcome>>

\* 780: the loop is left when its condition is false
MutantExitWhileOverset(fs, first, paras) == TRUE
LoopExits(fs, first, paras) == ~Overflows(fs, first, paras)

PaginateExit ==
    /\ pc = "paginate"
    /\ LoopExits(frames, targetFrame, paragraphs)
    /\ pc' = "collapse"
    /\ UNCHANGED <<variant, interaction, layout, content, lookup, history, loops, err, outcome,
                   faulted>>

-----------------------------------------------------------------------------
(* Step 7: collapse multiple returns (788-799).                            *)

\* The story's text, as story.changeGrep sees it: every paragraph's
\* characters followed by its return; each character carries the attributes
\* of its paragraph.
Attrs(p) == [p EXCEPT !.contents = <<>>]

Token(c, a) == [c |-> c, a |-> a]

ParaTokens(p) ==
    [n \in 1..Len(p.contents) |-> Token(p.contents[n], Attrs(p))]
        \o <<Token(CR, Attrs(p))>>

RECURSIVE Flatten(_)
Flatten(paras) ==
    IF paras = <<>> THEN <<>> ELSE ParaTokens(Head(paras)) \o Flatten(Tail(paras))

\* The paragraphs of a text: each return ends one; text after the last
\* return is a paragraph of its own.
RECURSIVE Split(_, _)
Split(toks, acc) ==
    IF toks = <<>>
    THEN IF acc = <<>> THEN <<>>
         ELSE <<[acc[1].a EXCEPT !.contents = [n \in 1..Len(acc) |-> acc[n].c]]>>
    ELSE IF Head(toks).c = CR
         THEN <<[Head(toks).a EXCEPT !.contents = [n \in 1..Len(acc) |-> acc[n].c]]>>
                  \o Split(Tail(toks), <<>>)
         ELSE Split(Tail(toks), Append(acc, Head(toks)))

Unflatten(toks) == Split(toks, <<>>)

\* findWhat "(\\r){2,}" and changeTo "\r"
GrepMinReturns == 2
GrepKeptReturns == 1

\* length of the run of returns that starts at position n
RECURSIVE ReturnRun(_, _)
ReturnRun(toks, n) ==
    IF n <= Len(toks) /\ toks[n].c = CR THEN 1 + ReturnRun(toks, n + 1) ELSE 0

\* story.changeGrep(): left to right, every greedy match of findWhat is
\* replaced by changeTo, which takes the attributes of the match's start
RECURSIVE GrepFrom(_, _, _, _)
GrepFrom(toks, n, min, kept) ==
    IF n > Len(toks) THEN <<>>
    ELSE LET run == ReturnRun(toks, n)
         IN  IF run >= min
             THEN [m \in 1..kept |-> toks[n]] \o GrepFrom(toks, n + run, min, kept)
             ELSE <<toks[n]>> \o GrepFrom(toks, n + 1, min, kept)

MutantKeepBlankLine(toks) == GrepFrom(toks, 1, GrepMinReturns + 1, GrepKeptReturns + 1)
ChangeGrep(toks) == GrepFrom(toks, 1, GrepMinReturns, GrepKeptReturns)

CollapseReturns(paras) == Unflatten(ChangeGrep(Flatten(paras)))

Collapse ==
    /\ pc = "collapse"
    /\ paragraphs' = CollapseReturns(paragraphs)
    /\ i' = 0
    /\ pc' = "trim"
    /\ UNCHANGED <<variant, interaction, layout, tables, hyperlinks, lookup, history, j, k, t, h,
                   err, outcome, faulted>>

\* 797-799: changeGrep throws; the error is logged and the story left alone
CollapseThrows ==
    /\ pc = "collapse"
    /\ MayThrow("collapse")
    /\ faulted' = faulted \cup {"collapse"}
    /\ i' = 0
    /\ pc' = "trim"
    /\ UNCHANGED <<variant, interaction, layout, content, lookup, history, j, k, t, h, err,
                   outcome>>

-----------------------------------------------------------------------------
(* Step 8: trim whitespace and remove empty paragraphs (802-809).          *)

\* p.remove(), for the n-th paragraph
MutantRemoveNothing(seq, n) == seq
RemoveAt(seq, n) == SubSeq(seq, 1, n - 1) \o SubSeq(seq, n + 1, Len(seq))

\* 807: the test that decides removal, on the contents before and after 806
MutantEmptyBeforeTrim(before, after) == before = <<>>
IsBlank(before, after) == StripSpace(after) = <<>>

\* 807: i-- after p.remove()
MutantNoDecrement(n) == n
MutantSkipAfterRemove(n) == n + 1
AfterRemove(n) == n - 1

\* One iteration of the loop at index n (0-based, as in the script),
\* followed by the loop's i++: the story and the index it leaves.
TrimIter(paras, n) ==
    LET before == paras[n + 1].contents
        after == TrimBoth(before)
        assigned == [paras EXCEPT ![n + 1].contents = after]
    IN  IF IsBlank(before, after)
        THEN [paragraphs |-> RemoveAt(assigned, n + 1), i |-> AfterRemove(n) + 1]
        ELSE [paragraphs |-> assigned, i |-> n + 1]

TrimStep ==
    /\ pc = "trim"
    /\ i < Len(paragraphs)
    /\ LET r == TrimIter(paragraphs, i)
       IN  /\ paragraphs' = r.paragraphs
           /\ i' = r.i
    /\ UNCHANGED <<variant, pc, interaction, layout, tables, hyperlinks, lookup, history, j, k, t,
                   h, err, outcome, faulted>>

\* 805-808: the paragraph's operation throws and is caught: either the
\* assignment of 806 (nothing changed) or the remove() of 807 (the trimmed
\* contents stay, i-- is not reached)
TrimThrows ==
    /\ pc = "trim"
    /\ i < Len(paragraphs)
    /\ MayThrow("trim")
    /\ faulted' = faulted \cup {"trim"}
    /\ \E at \in {"assign", "remove"} :
          LET before == paragraphs[i + 1].contents
              after == TrimBoth(before)
          IN  IF at = "assign"
              THEN paragraphs' = paragraphs
              ELSE /\ IsBlank(before, after)
                   /\ paragraphs' = [paragraphs EXCEPT ![i + 1].contents = after]
    /\ i' = i + 1
    /\ UNCHANGED <<variant, pc, interaction, layout, tables, hyperlinks, lookup, history, j, k, t,
                   h, err, outcome>>

TrimExit ==
    /\ pc = "trim"
    /\ i >= Len(paragraphs)
    /\ pc' = "styles"
    /\ UNCHANGED <<variant, interaction, layout, content, lookup, history, loops, err, outcome,
                   faulted>>

\* The loop run to its end from index n, no host call throwing.
RECURSIVE TrimLoop(_, _)
TrimLoop(paras, n) ==
    IF n >= Len(paras) THEN paras
    ELSE LET r == TrimIter(paras, n) IN TrimLoop(r.paragraphs, r.i)

\* Steps 7 and 8 together, no host call throwing.
Sanitize(paras) == TrimLoop(CollapseReturns(paras), 0)

\* The two steps in the other order: step 8, then step 7.
TrimThenCollapse(paras) == CollapseReturns(TrimLoop(paras, 0))

-----------------------------------------------------------------------------
(* Steps 9-11: look the styles up and map the incoming styles (811-847).   *)

\* getStyle(doc, name): the style, or null when the document has none
getStyle(reg, name) == IF name \in reg THEN name ELSE Null

\* 818-829: the styles object; every entry, table included, is looked up
\* among the paragraph styles
Gathered(reg) ==
    [body |-> getStyle(reg, BodyName),
     h1 |-> getStyle(reg, HeadingName(1)),
     h2 |-> getStyle(reg, HeadingName(2)),
     h3 |-> getStyle(reg, HeadingName(3)),
     h4 |-> getStyle(reg, HeadingName(4)),
     h5 |-> getStyle(reg, HeadingName(5)),
     h6 |-> getStyle(reg, HeadingName(6)),
     bullet |-> getStyle(reg, BulletsName),
     subBullet |-> getStyle(reg, SubBulletsName),
     table |-> getStyle(reg, TableStyleName)]

GatherStyles ==
    /\ pc = "styles"
    /\ styles' = Gathered(registry)
    /\ atPassA' = paragraphs
    /\ j' = 0
    /\ pc' = "passA"
    /\ UNCHANGED <<variant, interaction, layout, content, registry, charStyles, tableStyles,
                   hasDoc, importFile, levelAtStart, pagesAtStart, imported, atPassB, i,
                   k, t, h, err, outcome, faulted>>

\* 837-844: the style the else-if chain assigns to a paragraph whose style
\* name is srcName, or Null when no branch assigns
MutantSkipWhenUnregistered(srcName, st) ==
    IF TestI(NormalName, srcName) THEN st.body
    ELSE IF TestI(HeadingName(1), srcName) THEN st.h1
    ELSE IF TestI(HeadingName(2), srcName) THEN st.h2
    ELSE IF TestI(HeadingName(3), srcName) THEN st.h3
    ELSE IF TestI(HeadingName(4), srcName) THEN st.h4
    ELSE IF TestI(HeadingName(5), srcName) THEN st.h5
    ELSE IF TestI(HeadingName(6), srcName) THEN st.h6
    ELSE st.body

MutantHeadingsToThree(srcName, st) ==
    IF TestI(HeadingName(1), srcName) /\ st.h1 # Null THEN st.h1
    ELSE IF TestI(HeadingName(2), srcName) /\ st.h2 # Null THEN st.h2
    ELSE IF TestI(HeadingName(3), srcName) /\ st.h3 # Null THEN st.h3
    ELSE IF TestI(NormalName, srcName) /\ st.body # Null THEN st.body
    ELSE st.body

MutantNoDefault(srcName, st) ==
    IF TestI(NormalName, srcName) /\ st.body # Null THEN st.body
    ELSE IF TestI(HeadingName(1), srcName) /\ st.h1 # Null THEN st.h1
    ELSE IF TestI(HeadingName(2), srcName) /\ st.h2 # Null THEN st.h2
    ELSE IF TestI(HeadingName(3), srcName) /\ st.h3 # Null THEN st.h3
    ELSE IF TestI(HeadingName(4), srcName) /\ st.h4 # Null THEN st.h4
    ELSE IF TestI(HeadingName(5), srcName) /\ st.h5 # Null THEN st.h5
    ELSE IF TestI(HeadingName(6), srcName) /\ st.h6 # Null THEN st.h6
    ELSE Null

MapStyle(srcName, st) ==
    IF TestI(NormalName, srcName) /\ st.body # Null THEN st.body
    ELSE IF TestI(HeadingName(1), srcName) /\ st.h1 # Null THEN st.h1
    ELSE IF TestI(HeadingName(2), srcName) /\ st.h2 # Null THEN st.h2
    ELSE IF TestI(HeadingName(3), srcName) /\ st.h3 # Null THEN st.h3
    ELSE IF TestI(HeadingName(4), srcName) /\ st.h4 # Null THEN st.h4
    ELSE IF TestI(HeadingName(5), srcName) /\ st.h5 # Null THEN st.h5
    ELSE IF TestI(HeadingName(6), srcName) /\ st.h6 # Null THEN st.h6
    ELSE IF st.body # Null THEN st.body
    ELSE Null

\* 833-846, one iteration: reassign the style if a branch applies, then
\* clearOverrides(), whose failure is swallowed
PassAStep ==
    /\ pc = "passA"
    /\ j < Len(paragraphs)
    /\ LET para == paragraphs[j + 1]
           target == MapStyle(para.style, styles)
           styled == IF target = Null THEN para ELSE [para EXCEPT !.style = target]
       IN  \/ /\ paragraphs' = [paragraphs EXCEPT ![j + 1] = ClearOverrides(styled)]
              /\ faulted' = faulted
           \/ /\ MayThrow("clearA")
              /\ faulted' = faulted \cup {"clearA"}
              /\ paragraphs' = [paragraphs EXCEPT ![j + 1] = styled]
    /\ j' = j + 1
    /\ UNCHANGED <<variant, pc, interaction, layout, tables, hyperlinks, lookup, history, i, k, t,
                   h, err, outcome>>

\* 837-844: the assignment to appliedParagraphStyle throws; nothing catches
\* it before the script's outer catch
PassAThrows ==
    /\ pc = "passA"
    /\ j < Len(paragraphs)
    /\ MapStyle(paragraphs[j + 1].style, styles) # Null
    /\ Throw("passA", "Cannot apply paragraph style.")
    /\ UNCHANGED <<variant, interaction, layout, content, lookup, history, loops, outcome>>

PassAExit ==
    /\ pc = "passA"
    /\ j >= Len(paragraphs)
    /\ k' = 0
    /\ atPassB' = paragraphs
    /\ pc' = "passB"
    /\ UNCHANGED <<variant, interaction, layout, content, lookup, hasDoc, importFile,
                   levelAtStart, pagesAtStart, imported, atPassA, i, j, t, h, err,
                   outcome, faulted>>

-----------------------------------------------------------------------------
(* Step 12: cross-platform bullet repair, normalizeBullets (849-885).      *)

\* 852: primaryBulletRE's character class; 853: subBulletGlyphRE's; 854:
\* dashBulletRE's
MutantPrimaryWithoutBullet == {"U25CF", SmallCircle, "UF0B7", "U2219", "U00B7"}
PrimaryGlyphs == {Bullet, "U25CF", SmallCircle, "UF0B7", "U2219", "U00B7"}
SubBulletGlyphs == {OpenCircle, SmallCircle, "o"}
DashGlyphs == {Dash, "U2013"}

\* /^[glyphs]\s*\t?/.test(txt)
GlyphTest(glyphs, txt) == txt # <<>> /\ Head(txt) \in glyphs

\* /^[\-–]\s+\t?/.test(txt)
DashTest(txt) == Len(txt) >= 2 /\ Head(txt) \in DashGlyphs /\ IsSpace(txt[2])

\* txt.replace(re, "") for a text the expression matches: the glyph and the
\* white space after it go (the greedy \s* leaves no tab for \t?)
MutantStripGlyphOnly(txt) == Tail(txt)
StripPrefix(txt) == DropLeadingSpace(Tail(txt))

\* 860-882: which branch of the loop body handles the text
MutantEveryParagraph(txt, st) == IF st.bullet # Null THEN "primary" ELSE "none"

MutantPrimaryFirst(txt, st) ==
    IF st.bullet # Null /\ GlyphTest(PrimaryGlyphs, txt) THEN "primary"
    ELSE IF st.subBullet # Null /\ GlyphTest(SubBulletGlyphs, txt) THEN "sub"
    ELSE IF st.bullet # Null /\ DashTest(txt) THEN "dash"
    ELSE "none"
MutantUnguarded(txt, st) ==
    IF GlyphTest(SubBulletGlyphs, txt) THEN "sub"
    ELSE IF GlyphTest(PrimaryGlyphs, txt) THEN "primary"
    ELSE IF DashTest(txt) THEN "dash"
    ELSE "none"

BulletRule(txt, st) ==
    IF st.subBullet # Null /\ GlyphTest(SubBulletGlyphs, txt) THEN "sub"
    ELSE IF st.bullet # Null /\ GlyphTest(PrimaryGlyphs, txt) THEN "primary"
    ELSE IF st.bullet # Null /\ DashTest(txt) THEN "dash"
    ELSE "none"

\* 856-883, one iteration
PassBStep ==
    /\ pc = "passB"
    /\ k < Len(paragraphs)
    /\ LET pp == paragraphs[k + 1]
           rule == BulletRule(pp.contents, styles)
           fixed == [pp EXCEPT !.contents = StripPrefix(pp.contents),
                               !.style = IF rule = "sub" THEN styles.subBullet
                                         ELSE styles.bullet,
                               !.listType = "BULLET_LIST"]
       IN  IF rule = "none"
           THEN /\ paragraphs' = paragraphs
                /\ faulted' = faulted
           ELSE \/ /\ paragraphs' = [paragraphs EXCEPT ![k + 1] = ClearOverrides(fixed)]
                   /\ faulted' = faulted
                \/ /\ MayThrow("clearB")
                   /\ faulted' = faulted \cup {"clearB"}
                   /\ paragraphs' = [paragraphs EXCEPT ![k + 1] = fixed]
    /\ k' = k + 1
    /\ UNCHANGED <<variant, pc, interaction, layout, tables, hyperlinks, lookup, history, i, j, t,
                   h, err, outcome>>

\* 861-863, 869-871, 877-879: one of the three assignments of the branch
\* throws; nothing catches it before the script's outer catch, and what the
\* earlier assignments of the branch wrote stays
PassBThrows ==
    /\ pc = "passB"
    /\ k < Len(paragraphs)
    /\ LET pp == paragraphs[k + 1]
           rule == BulletRule(pp.contents, styles)
           stripped == [pp EXCEPT !.contents = StripPrefix(pp.contents)]
           styled == [stripped EXCEPT !.style = IF rule = "sub" THEN styles.subBullet
                                               ELSE styles.bullet]
       IN  /\ rule # "none"
           /\ \E at \in {"contents", "style", "listType"} :
                 paragraphs' = [paragraphs EXCEPT ![k + 1] =
                                   CASE at = "contents" -> pp
                                     [] at = "style" -> stripped
                                     [] at = "listType" -> styled]
    /\ Throw("passB", "Cannot set paragraph property.")
    /\ UNCHANGED <<variant, interaction, layout, tables, hyperlinks, lookup, history, loops,
                   outcome>>

PassBExit ==
    /\ pc = "passB"
    /\ k >= Len(paragraphs)
    /\ t' = 0
    /\ pc' = "tables"
    /\ UNCHANGED <<variant, interaction, layout, content, lookup, history, i, j, k, h, err,
                   outcome, faulted>>

-----------------------------------------------------------------------------
(* Step 13: table styling (887-892).                                       *)

TableLoopRuns == styles.table # Null /\ Len(tables) > 0

\* 890: story.tables[t].appliedTableStyle = styles.table, where styles.table
\* is a paragraph style (813). What the host makes of a paragraph style
\* given as a table style is not in the script: it either rejects the value
\* (the exception is swallowed, the table keeps its style) or takes the
\* table style of that name, if the document has one.
AppliedTableStyle(table, st, tstyles) ==
    {table} \cup (IF st \in tstyles THEN {[table EXCEPT !.style = st]} ELSE {})

\* 890, one iteration: the assignment, or its exception swallowed
TableStep ==
    /\ pc = "tables"
    /\ TableLoopRuns
    /\ t < Len(tables)
    /\ \/ /\ \E styled \in AppliedTableStyle(tables[t + 1], styles.table, tableStyles) :
                tables' = [tables EXCEPT ![t + 1] = styled]
          /\ faulted' = faulted
       \/ /\ MayThrow("tables")
          /\ faulted' = faulted \cup {"tables"}
          /\ tables' = tables
    /\ t' = t + 1
    /\ UNCHANGED <<variant, pc, interaction, layout, paragraphs, hyperlinks, lookup, history, i,
                   j, k, h, err, outcome>>

TablesExit ==
    /\ pc = "tables"
    /\ ~TableLoopRuns \/ t >= Len(tables)
    /\ h' = 0
    /\ pc' = "links"
    /\ UNCHANGED <<variant, interaction, layout, content, lookup, history, i, j, k, t, err,
                   outcome, faulted>>

-----------------------------------------------------------------------------
(* Step 14: hyperlink character style, URL destinations only (894-922).    *)

\* 895-902: the character style, or null when the document has none
hyperlinkStyle == IF HyperlinkStyleName \in charStyles THEN HyperlinkStyleName ELSE "null"

LinkLoopRuns == hyperlinkStyle # "null" /\ Len(hyperlinks) > 0

\* 909-916: whether the link's source text gets the style
MutantAnySource(link) == link.dest = "URL"
LinkIsStyled(link) == link.dest = "URL" /\ link.src = "TEXT" /\ link.len > 0

\* 906-920, one iteration: the body, or its exception logged and swallowed
LinkStep ==
    /\ pc = "links"
    /\ LinkLoopRuns
    /\ h < Len(hyperlinks)
    /\ \/ /\ hyperlinks' = IF LinkIsStyled(hyperlinks[h + 1])
                           THEN [hyperlinks EXCEPT ![h + 1].charStyle = hyperlinkStyle]
                           ELSE hyperlinks
          /\ faulted' = faulted
       \/ /\ MayThrow("links")
          /\ faulted' = faulted \cup {"links"}
          /\ hyperlinks' = hyperlinks
    /\ h' = h + 1
    /\ UNCHANGED <<variant, pc, interaction, layout, paragraphs, tables, lookup, history, i, j, k,
                   t, err, outcome>>

LinksExit ==
    /\ pc = "links"
    /\ ~LinkLoopRuns \/ h >= Len(hyperlinks)
    /\ pc' = "alert"
    /\ UNCHANGED <<variant, interaction, layout, content, lookup, history, loops, err, outcome,
                   faulted>>

-----------------------------------------------------------------------------
(* The script's end: success alert, catch, finally (926-933).              *)

\* 926: alert("Import complete...")
Succeed ==
    /\ pc = "alert"
    /\ outcome' = "success"
    /\ pc' = "finally"
    /\ UNCHANGED <<variant, interaction, layout, content, lookup, history, loops, err, faulted>>

\* 928-931: alert("Script error: " + err.message)
Catch ==
    /\ pc = "catch"
    /\ outcome' = "fatal"
    /\ pc' = "finally"
    /\ UNCHANGED <<variant, interaction, layout, content, lookup, history, loops, err, faulted>>

\* 932: the level the finally block writes back
MutantNoRestore(saved, current) == current
RestoredLevel(saved, current) == saved

Finally ==
    /\ pc = "finally"
    /\ level' = RestoredLevel(originalInteractionLevel, level)
    /\ pc' = "done"
    /\ UNCHANGED <<variant, originalInteractionLevel, layout, content, lookup, history, loops,
                   err, outcome, faulted>>

-----------------------------------------------------------------------------
(* The whole run, from the state the script is started in.                 *)

\* The template: its pages share the document's margins; the first page may
\* already hold a text frame of some height.
TemplatePages(n, m) == [p \in 1..n |-> NewPage(p, m)]

TemplateFrames(height) ==
    IF height = 0 THEN <<>>
    ELSE <<[page |-> 1, gb |-> <<0, 0, height, PageW>>, next |-> 0]>>

\* Before the script runs nothing of it exists yet.
Idle ==
    /\ pc = "start"
    /\ importFile = "undefined"
    /\ levelAtStart = level
    /\ pagesAtStart = Len(pages)
    /\ originalInteractionLevel = "undefined"
    /\ targetFrame = 0
    /\ paragraphs = <<>>
    /\ imported = <<>>
    /\ atPassA = <<>>
    /\ atPassB = <<>>
    /\ tables = <<>>
    /\ hyperlinks = <<>>
    /\ styles = NoStyles
    /\ i = 0 /\ j = 0 /\ k = 0 /\ t = 0 /\ h = 0
    /\ err = ""
    /\ outcome = "none"
    /\ faulted = {}
    /\ prevWasBullet = FALSE
    /\ styleEdits = {}
    /\ styleLines = OneLine

Init ==
    /\ level \in Levels
    /\ hasDoc \in BOOLEAN
    /\ \E n \in 1..MaxInitPages, m \in Margins, height \in 0..PageH :
          /\ pages = TemplatePages(n, m)
          /\ frames = TemplateFrames(height)
    /\ \E full \in BOOLEAN :
          /\ registry = IF full THEN TargetNames ELSE {}
          /\ charStyles = IF full THEN {HyperlinkStyleName} ELSE {}
          /\ tableStyles = IF full THEN {TableStyleName} ELSE {}
    /\ Idle

Next ==
    \/ NoDocument \/ Acquire \/ PickFile \/ GetFirstFrame \/ Place \/ PlaceThrows
    \/ AddPage \/ AddPageThrows \/ PaginateExit
    \/ Collapse \/ CollapseThrows \/ TrimStep \/ TrimThrows \/ TrimExit
    \/ GatherStyles \/ PassAStep \/ PassAThrows \/ PassAExit
    \/ PassBStep \/ PassBThrows \/ PassBExit
    \/ TableStep \/ TablesExit \/ LinkStep \/ LinksExit
    \/ Succeed \/ Catch \/ Finally

Spec == Init /\ [][Next]_vars

-----------------------------------------------------------------------------
(* Single stages, from every state the earlier stages can hand them.       *)

NoMargins == [top |-> 0, left |-> 0, bottom |-> 0, right |-> 0]

FramesNeeded(n) == IF n <= PageH THEN 1 ELSE (n + PageH - 1) \div PageH

\* The layout pagination leaves for a story of n lines in a one-page
\* template without margins: one full-page frame per page, threaded in order.
FlowedPages(n) == TemplatePages(FramesNeeded(n), NoMargins)

FlowedFrames(n) ==
    [f \in 1..FramesNeeded(n) |->
        [page |-> f, gb |-> PageBounds, next |-> IF f < FramesNeeded(n) THEN f + 1 ELSE 0]]

\* The script after step 6, with the story paras flowed and nothing thrown.
Flowed(paras) ==
    /\ hasDoc = TRUE
    /\ importFile = "ok"
    /\ levelAtStart = "INTERACT_WITH_ALL"
    /\ originalInteractionLevel = "INTERACT_WITH_ALL"
    /\ level = "NEVER_INTERACT"
    /\ pages = FlowedPages(Len(paras))
    /\ pagesAtStart = 1
    /\ frames = FlowedFrames(Len(paras))
    /\ targetFrame = 1
    /\ paragraphs = paras
    /\ imported = paras
    /\ tables = <<>>
    /\ hyperlinks = <<>>
    /\ err = ""
    /\ outcome = "none"
    /\ faulted = {}
    /\ prevWasBullet = FALSE
    /\ styleEdits = {}
    /\ styleLines = OneLine

SeqsUpTo(S, n) == UNION {[1..m -> S] : m \in 0..n}

\* The sanitizer (steps 7 and 8) on every story whose text has at most
\* MaxText characters, returns included.
MaxText == 6

SanChars == {"a", SP, CR}

PlainAttrs == Attrs(Para(<<>>, NormalName))

SanStories ==
    {Unflatten([n \in 1..Len(txt) |-> Token(txt[n], PlainAttrs)]) : txt \in SeqsUpTo(SanChars, MaxText)}

SanInit ==
    /\ pc = "collapse"
    /\ registry = TargetNames \cup {NormalName}
    /\ charStyles = {}
    /\ tableStyles = {}
    /\ styles = NoStyles
    /\ atPassA = <<>>
    /\ atPassB = <<>>
    /\ i = 0 /\ j = 0 /\ k = 0 /\ t = 0 /\ h = 0
    /\ \E s \in SanStories : Flowed(s)

SanNext == Collapse \/ CollapseThrows \/ TrimStep \/ TrimThrows \/ TrimExit

SanSpec == SanInit /\ [][SanNext]_vars

\* The trim loop (step 8) alone, on every story of at most MaxTrimParas
\* paragraphs of text, padded text, spaces or nothing. The script is one
\* sequential run: a step that can be taken is taken.
MaxTrimParas == 3

TrimStories ==
    SeqsUpTo({Para(txt, NormalName) : txt \in {<<"a">>, <<SP, "a", SP>>, <<SP>>, <<>>}},
             MaxTrimParas)

TrimInit ==
    /\ pc = "trim"
    /\ registry = TargetNames \cup {NormalName}
    /\ charStyles = {}
    /\ tableStyles = {}
    /\ styles = NoStyles
    /\ atPassA = <<>>
    /\ atPassB = <<>>
    /\ i = 0 /\ j = 0 /\ k = 0 /\ t = 0 /\ h = 0
    /\ \E s \in TrimStories : Flowed(s)

TrimNext == TrimStep \/ TrimThrows \/ TrimExit

TrimFairSpec == TrimInit /\ [][TrimNext]_vars /\ WF_vars(TrimNext)

\* The style mapper (steps 9-11) on every sanitized story of at most
\* MaxStyleParas paragraphs, each with any source style name, in a template
\* that has all or none of the heading styles, with or without the body
\* style (the import registers the names the story itself uses).
SrcNames ==
    {LowerHeadingName(n) : n \in HeadingLevels}
        \cup {HeadingName(1), HeadingName(3), NormalName, ListParagraphName, NoName,
              HeadingNormalName}

StyleStories == SeqsUpTo({Para(<<"a">>, n) : n \in SrcNames}, MaxStyleParas)

AllHeadings == {HeadingName(n) : n \in HeadingLevels}

MissingSets == {{}, AllHeadings, {BodyName}, AllHeadings \cup {BodyName}}

StyleInit ==
    /\ pc = "styles"
    /\ charStyles = {}
    /\ tableStyles = {}
    /\ styles = NoStyles
    /\ atPassA = <<>>
    /\ atPassB = <<>>
    /\ j = 0 /\ k = 0 /\ t = 0 /\ h = 0
    /\ \E s \in StyleStories :
          /\ Flowed(s)
          /\ i = Len(s)
          /\ \E missing \in MissingSets :
                registry = (TargetNames \ missing) \cup StyleNamesOf(s)

StyleNext == GatherStyles \/ PassAStep \/ PassAThrows \/ PassAExit

StyleSpec == StyleInit /\ [][StyleNext]_vars

\* The bullet repair (step 12) on every story of at most MaxBulletParas
\* paragraphs as Pass A leaves them: in the body style or a heading style,
\* overrides cleared, with the texts, native list flags and indents an
\* import can carry, in a template with or without the two bullet styles.
MaxBulletParas == 2

BulletTexts ==
    {<<"a">>, <<Bullet, SP, "a">>, <<Bullet, "a">>, <<Bullet, Bullet, "a">>,
     <<Bullet, TAB, "a">>, <<SmallCircle, SP, "a">>, <<OpenCircle, SP, "a">>,
     <<"o", SP, "a">>, <<"o", "a">>, <<Dash, SP, "a">>, <<Dash, "a">>}

Mapped(text, style) == [Para(text, style) EXCEPT !.overrides = FALSE]

BulletParas ==
    {Mapped(txt, BodyName) : txt \in BulletTexts}
        \cup {Mapped(txt, HeadingName(1)) : txt \in {<<"a">>, <<"o", "a">>, <<Bullet, SP, "a">>}}
        \cup {[Mapped(txt, BodyName) EXCEPT !.listType = "BULLET_LIST"] :
                  txt \in {<<"a">>, <<Bullet, SP, "a">>}}
        \cup {[Mapped(<<"a">>, BodyName) EXCEPT !.leftIndent = 1]}

BulletStories == SeqsUpTo(BulletParas, MaxBulletParas)

BulletInit ==
    /\ pc = "passB"
    /\ charStyles = {}
    /\ tableStyles = {}
    /\ \E s \in BulletStories :
          /\ Flowed(s)
          /\ atPassA = s
          /\ atPassB = s
          /\ i = Len(s) /\ j = Len(s)
    /\ k = 0 /\ t = 0 /\ h = 0
    /\ \E present \in SUBSET {BulletsName, SubBulletsName} :
          registry = {BodyName, HeadingName(1)} \cup present
    /\ styles = Gathered(registry)

BulletNext == PassBStep \/ PassBThrows \/ PassBExit

BulletSpec == BulletInit /\ [][BulletNext]_vars

\* The hyperlink styling (step 14) on every document of at most MaxLinks
\* hyperlinks of every kind of destination and source, with or without the
\* character style. Only a URL destination has a destinationURL.
MaxLinks == 2

LinkKinds ==
    {Link(d[1], d[2], s[1], s[2]) :
        d \in {<<"URL", "https">>, <<"URL", "mailto">>, <<"URL", "file">>,
               <<"PAGE", "none">>, <<"ANCHOR", "none">>},
        s \in {<<"TEXT", 1>>, <<"TEXT", 0>>, <<"PAGE_ITEM", 0>>}}

Styled == <<Mapped(<<"a">>, BodyName)>>

LinkInit ==
    /\ pc = "links"
    /\ registry = {BodyName}
    /\ tableStyles = {}
    /\ charStyles \in {{}, {HyperlinkStyleName}}
    /\ styles = Gathered(registry)
    /\ \E ls \in SeqsUpTo(LinkKinds, MaxLinks) :
          /\ pc = "links"
          /\ hasDoc = TRUE
          /\ importFile = "ok"
          /\ levelAtStart = "INTERACT_WITH_ALL"
          /\ originalInteractionLevel = "INTERACT_WITH_ALL"
          /\ level = "NEVER_INTERACT"
          /\ pages = FlowedPages(1)
          /\ pagesAtStart = 1
          /\ frames = FlowedFrames(1)
          /\ targetFrame = 1
          /\ paragraphs = Styled
          /\ imported = Styled
          /\ atPassA = Styled
          /\ atPassB = Styled
          /\ tables = <<>>
          /\ hyperlinks = ls
    /\ i = 1 /\ j = 1 /\ k = 1 /\ t = 0 /\ h = 0
    /\ err = ""
    /\ outcome = "none"
    /\ faulted = {}
    /\ prevWasBullet = FALSE
    /\ styleEdits = {}
    /\ styleLines = OneLine

LinkNext == LinkStep \/ LinksExit

LinkSpec == LinkInit /\ [][LinkNext]_vars

\* The table styling (step 13) on every story of at most MaxTables tables,
\* in a template with or without a paragraph style and with or without a
\* table style of the name "Table Style 1".
MaxTables == 3

OtherTableStyle == <<"B", "a", "s", "i", "c">>

TableKinds == {Table(NoTableStyle), Table(OtherTableStyle)}

TableInit ==
    /\ pc = "tables"
    /\ registry \in {{BodyName}, {BodyName, TableStyleName}}
    /\ tableStyles \in {{}, {TableStyleName}}
    /\ charStyles = {}
    /\ styles = Gathered(registry)
    /\ \E ts \in SeqsUpTo(TableKinds, MaxTables) :
          /\ hasDoc = TRUE
          /\ importFile = "ok"
          /\ levelAtStart = "INTERACT_WITH_ALL"
          /\ originalInteractionLevel = "INTERACT_WITH_ALL"
          /\ level = "NEVER_INTERACT"
          /\ pages = FlowedPages(1)
          /\ pagesAtStart = 1
          /\ frames = FlowedFrames(1)
          /\ targetFrame = 1
          /\ paragraphs = Styled
          /\ imported = Styled
          /\ atPassA = Styled
          /\ atPassB = Styled
          /\ tables = ts
          /\ hyperlinks = <<>>
    /\ i = 1 /\ j = 1 /\ k = 1 /\ t = 0 /\ h = 0
    /\ err = ""
    /\ outcome = "none"
    /\ faulted = {}
    /\ prevWasBullet = FALSE
    /\ styleEdits = {}
    /\ styleLines = OneLine

TableNext == TableStep \/ TablesExit

TableSpec == TableInit /\ [][TableNext]_vars

-----------------------------------------------------------------------------
(* The revision of lines 173-367: its style mapping (step 9, 258-271) and  *)
(* its bullet step normalizeBulletsAndLists (step 10, 273-322).            *)

NumberedName == <<"N", "u", "m", "b", "e", "r", "e", "d">>
TableGridName == <<"T", "a", "b", "l", "e", " ", "G", "r", "i", "d">>

\* 246-256: the styles object of that revision
GatheredEarlier(reg) ==
    [body |-> getStyle(reg, BodyName),
     h1 |-> getStyle(reg, HeadingName(1)),
     h2 |-> getStyle(reg, HeadingName(2)),
     h3 |-> getStyle(reg, HeadingName(3)),
     bullet |-> getStyle(reg, BulletsName),
     subBullet |-> getStyle(reg, SubBulletsName),
     table |-> getStyle(reg, TableStyleName),
     numbered |-> getStyle(reg, NumberedName)]

\* 278: the character class of glyphRE
ListGlyphs ==
    {"U2022", "U25CF", "U25E6", "UF0B7", "U2219", "U00B7", "U25CB", "o", "-", "U2013"}

IsDigit(c) == c \in {"0", "1", "2", "3", "4", "5", "6", "7", "8", "9"}

\* 297: /^heading\s*\d+$/i.test(sn)
HeadingSkipTest(sn) ==
    LET low == Fold(sn)
    IN  /\ Len(low) >= 8
        /\ SubSeq(low, 1, 7) = <<"h", "e", "a", "d", "i", "n", "g">>
        /\ \E d \in 8..Len(low) :
              /\ \A n \in 8..(d - 1) : low[n] = " " \/ IsSpace(low[n])
              /\ \A n \in d..Len(low) : IsDigit(low[n])

\* 297: /^table/i.test(sn)
TableSkipTest(sn) ==
    Len(sn) >= 5 /\ SubSeq(Fold(sn), 1, 5) = <<"t", "a", "b", "l", "e">>

Skipped(sn) == HeadingSkipTest(sn) \/ TableSkipTest(sn)

\* 281-286: /list|bullet/i.test(name)
looksListyStyle(sn) ==
    TestI(<<"l", "i", "s", "t">>, sn) \/ TestI(<<"b", "u", "l", "l", "e", "t">>, sn)

RECURSIVE DropLeadingIn(_, _)
DropLeadingIn(set, s) ==
    IF s # <<>> /\ Head(s) \in set THEN DropLeadingIn(set, Tail(s)) ELSE s

\* 313: txt.replace(glyphRE, "").replace(/^\t+/, "")
StripListPrefix(txt) ==
    LET unglyphed == IF GlyphTest(ListGlyphs, txt)
                     THEN DropLeadingSpace(DropLeadingIn(ListGlyphs, txt))
                     ELSE txt
    IN  DropLeadingIn({TAB}, unglyphed)

\* 300-309: shouldBeBullet, for the paragraph p whose right-trimmed text is
\* txt, with prev the value of prevWasBullet
shouldBeBullet(p, txt, prev) ==
    \/ p.listType = "BULLET_LIST"
    \/ GlyphTest(ListGlyphs, txt)
    \/ /\ txt # <<>> /\ Head(txt) = TAB
       /\ looksListyStyle(p.style) \/ prev

\* 297: the value the skip of a heading or table paragraph gives the flag
MutantKeepFlag(prev) == prev
FlagAfterSkip(prev) == FALSE

\* 264-268 (and 91-95): the style the else-if chain of that revision
\* assigns, headings first, or Null when no branch assigns
MutantNoBodyDefault(srcName, st) ==
    IF TestI(HeadingName(1), srcName) /\ st.h1 # Null THEN st.h1
    ELSE IF TestI(HeadingName(2), srcName) /\ st.h2 # Null THEN st.h2
    ELSE IF TestI(HeadingName(3), srcName) /\ st.h3 # Null THEN st.h3
    ELSE IF TestI(NormalName, srcName) /\ st.body # Null THEN st.body
    ELSE Null

MapStyleHeadingsFirst(srcName, st) ==
    IF TestI(HeadingName(1), srcName) /\ st.h1 # Null THEN st.h1
    ELSE IF TestI(HeadingName(2), srcName) /\ st.h2 # Null THEN st.h2
    ELSE IF TestI(HeadingName(3), srcName) /\ st.h3 # Null THEN st.h3
    ELSE IF TestI(NormalName, srcName) /\ st.body # Null THEN st.body
    ELSE IF st.body # Null THEN st.body
    ELSE Null

\* 259-270, one iteration: reassign the style if a branch applies, then
\* clearOverrides(), whose failure is swallowed
MapStep ==
    /\ pc = "mapA"
    /\ j < Len(paragraphs)
    /\ LET para == paragraphs[j + 1]
           target == MapStyleHeadingsFirst(para.style, styles)
           styled == IF target = Null THEN para ELSE [para EXCEPT !.style = target]
       IN  \/ /\ paragraphs' = [paragraphs EXCEPT ![j + 1] = ClearOverrides(styled)]
              /\ faulted' = faulted
           \/ /\ MayThrow("clearA")
              /\ faulted' = faulted \cup {"clearA"}
              /\ paragraphs' = [paragraphs EXCEPT ![j + 1] = styled]
    /\ j' = j + 1
    /\ UNCHANGED <<variant, pc, interaction, layout, tables, hyperlinks, lookup, history, i, k, t,
                   h, err, outcome>>

\* 264-268: the assignment to appliedParagraphStyle throws; nothing catches
\* it before the script's outer catch
MapThrows ==
    /\ pc = "mapA"
    /\ j < Len(paragraphs)
    /\ MapStyleHeadingsFirst(paragraphs[j + 1].style, styles) # Null
    /\ Throw("passA", "Cannot apply paragraph style.")
    /\ UNCHANGED <<variant, interaction, layout, content, lookup, history, loops, outcome>>

\* 259, 324: the loop ends and normalizeBulletsAndLists(story, styles) starts
MapExit ==
    /\ pc = "mapA"
    /\ j >= Len(paragraphs)
    /\ atPassB' = paragraphs
    /\ prevWasBullet' = FALSE
    /\ k' = 0
    /\ pc' = "listB"
    /\ UNCHANGED <<styleEdits, styleLines, interaction, layout, content, lookup, hasDoc,
                   importFile, levelAtStart, pagesAtStart, imported, atPassA, i, j, t, h,
                   err, outcome, faulted>>

\* 289-320, one iteration
ListStep ==
    /\ pc = "listB"
    /\ k < Len(paragraphs)
    /\ LET p == paragraphs[k + 1]
           txt == DropTrailingSpace(p.contents)
           fixed == [p EXCEPT !.contents = StripListPrefix(txt),
                              !.style = IF styles.bullet # Null THEN styles.bullet ELSE p.style,
                              !.listType = "BULLET_LIST"]
       IN  IF Skipped(p.style)
           THEN /\ prevWasBullet' = FlagAfterSkip(prevWasBullet)
                /\ paragraphs' = paragraphs
                /\ faulted' = faulted
           ELSE IF shouldBeBullet(p, txt, prevWasBullet)
           THEN /\ prevWasBullet' = TRUE
                /\ \/ /\ paragraphs' = [paragraphs EXCEPT ![k + 1] = ClearOverrides(fixed)]
                      /\ faulted' = faulted
                   \/ /\ MayThrow("clearB")
                      /\ faulted' = faulted \cup {"clearB"}
                      /\ paragraphs' = [paragraphs EXCEPT ![k + 1] = fixed]
           ELSE /\ prevWasBullet' = FALSE
                /\ paragraphs' = paragraphs
                /\ faulted' = faulted
    /\ k' = k + 1
    /\ UNCHANGED <<styleEdits, styleLines, pc, interaction, layout, tables, hyperlinks, lookup, history, i,
                   j, t, h, err, outcome>>

\* 313-315: one of the three assignments throws; nothing catches it before
\* the script's outer catch
ListThrows ==
    /\ pc = "listB"
    /\ k < Len(paragraphs)
    /\ LET p == paragraphs[k + 1]
           txt == DropTrailingSpace(p.contents)
           stripped == [p EXCEPT !.contents = StripListPrefix(txt)]
           styled == [stripped EXCEPT !.style = IF styles.bullet # Null THEN styles.bullet
                                                ELSE p.style]
       IN  /\ ~Skipped(p.style)
           /\ shouldBeBullet(p, txt, prevWasBullet)
           /\ \E at \in {"contents", "style", "listType"} :
                 paragraphs' = [paragraphs EXCEPT ![k + 1] =
                                   CASE at = "contents" -> p
                                     [] at = "style" -> stripped
                                     [] at = "listType" -> styled]
    /\ Throw("passB", "Cannot set paragraph property.")
    /\ UNCHANGED <<variant, interaction, layout, tables, hyperlinks, lookup, history, loops,
                   outcome>>

ListExit ==
    /\ pc = "listB"
    /\ k >= Len(paragraphs)
    /\ t' = 0
    /\ pc' = "tables"
    /\ UNCHANGED <<variant, interaction, layout, content, lookup, history, i, j, k, h, err,
                   outcome, faulted>>

\* normalizeBulletsAndLists on every story of at most MaxListParas
\* paragraphs as the mapping of step 9 leaves them: in a template with
\* "Body" every paragraph has "Body" or a heading style, in one without,
\* the paragraphs that are not headings keep the style they came with. A
\* leading tab is there when the trim of step 7 failed on the paragraph.
MaxListParas == 3

ListTexts == {<<"a">>, <<TAB, "a">>, <<Bullet, SP, "a">>}

MappedParas ==
    {Mapped(txt, HeadingName(1)) : txt \in {<<"a">>, <<TAB, "a">>}}
        \cup {Mapped(txt, BodyName) : txt \in ListTexts}
        \cup {[Mapped(<<"a">>, BodyName) EXCEPT !.listType = "BULLET_LIST"]}

UnmappedParas ==
    {Mapped(txt, HeadingName(1)) : txt \in {<<"a">>, <<TAB, "a">>}}
        \cup {Mapped(txt, sn) : txt \in {<<"a">>, <<TAB, "a">>},
                                sn \in {NormalName, ListParagraphName, TableGridName}}

ListInit ==
    /\ pc = "listB"
    /\ charStyles = {}
    /\ tableStyles = {}
    /\ \E withBody \in BOOLEAN, withBullets \in BOOLEAN :
          /\ registry = (IF withBody THEN {BodyName, HeadingName(1)} ELSE {})
                            \cup (IF withBullets THEN {BulletsName} ELSE {})
          /\ \E s \in SeqsUpTo(IF withBody THEN MappedParas ELSE UnmappedParas, MaxListParas) :
                /\ Flowed(s)
                /\ atPassA = s
                /\ atPassB = s
                /\ i = Len(s) /\ j = Len(s)
    /\ k = 0 /\ t = 0 /\ h = 0
    /\ styles = GatheredEarlier(registry)

ListNext == ListStep \/ ListThrows \/ ListExit

ListSpec == ListInit /\ [][ListNext]_vars

\* Steps 9 and 10 of that revision, one after the other, on every story of
\* at most MaxEarlierParas paragraphs as the trim leaves them (a leading
\* tab is there when the trim failed on the paragraph), in a template with
\* or without "Body" and "Bullets"; the document has the styles the placed
\* file brought.
MaxEarlierParas == 2

EarlierParas ==
    {Para(txt, NormalName) : txt \in ListTexts}
        \cup {Para(txt, ListParagraphName) : txt \in {<<"a">>, <<TAB, "a">>}}
        \cup {Para(<<"a">>, HeadingName(1))}

EarlierInit ==
    /\ pc = "mapA"
    /\ charStyles = {}
    /\ tableStyles = {}
    /\ \E s \in SeqsUpTo(EarlierParas, MaxEarlierParas) :
          /\ Flowed(s)
          /\ atPassA = s
          /\ atPassB = <<>>
          /\ i = Len(s)
          /\ \E template \in SUBSET {BodyName, BulletsName} :
                registry = template \cup StyleNamesOf(s)
    /\ j = 0 /\ k = 0 /\ t = 0 /\ h = 0
    /\ styles = GatheredEarlier(registry)

EarlierNext == MapStep \/ MapThrows \/ MapExit \/ ListStep \/ ListThrows \/ ListExit

EarlierSpec == EarlierInit /\ [][EarlierNext]_vars

-----------------------------------------------------------------------------
(* ImportDocx.jsx, step 6.5: the styles it creates or gets (91-161,        *)
(* 239-300) and its style mapping (164-175, 397-447).                      *)

BodyTextName == <<"B", "o", "d", "y", " ", "T", "e", "x", "t">>

\* 94-161: the names createOrGetParagraphStyle is called with, in order
DocxTargets == [n \in 1..7 |-> IF n <= 6 THEN HeadingName(n) ELSE BodyTextName]

\* 165-174: styleMap, from the Word style name to the name of the target
styleMap(sn) ==
    IF sn \in {HeadingName(n) : n \in HeadingLevels} THEN sn
    ELSE IF sn \in {NormalName, BodyTextName} THEN BodyTextName
    ELSE Null

\* 239-300, one call, for the j-th name. For a name the document has, the
\* properties are written to the style, unless the first write (the font,
\* 255) throws and the catch of the block skips them all. For a name it has
\* not, item() either throws, and the style is added (247) and written, or
\* hands back a reference that is not valid, and every write fails.
DocxCreateOrGet ==
    /\ pc = "docxStyles"
    /\ j < Len(DocxTargets)
    /\ LET name == DocxTargets[j + 1]
       IN  \/ /\ registry' = registry \cup {name}
              /\ styleEdits' = styleEdits \cup {name}
           \/ /\ name \in registry
              /\ UNCHANGED <<registry, styleEdits>>
           \/ /\ name \notin registry
              /\ UNCHANGED <<registry, styleEdits>>
    /\ j' = j + 1
    /\ UNCHANGED <<prevWasBullet, styleLines, pc, interaction, layout, content, charStyles, tableStyles,
                   styles, history, i, k, t, h, err, outcome, faulted>>

\* 397-447: a paragraph whose style name is a key of styleMap gets the
\* style of the mapped name, when the document has it
DocxMapped(para) ==
    IF styleMap(para.style) # Null /\ styleMap(para.style) \in registry
    THEN [para EXCEPT !.style = styleMap(para.style)]
    ELSE para

\* 176: mapWordStylesToInDesign(textFrame.parentStory, styleMap, doc)
DocxMapStyles ==
    /\ pc = "docxStyles"
    /\ j >= Len(DocxTargets)
    /\ paragraphs' = [n \in 1..Len(paragraphs) |-> DocxMapped(paragraphs[n])]
    /\ pc' = "docxFonts"
    /\ UNCHANGED <<variant, interaction, layout, tables, hyperlinks, lookup, history, loops,
                   err, outcome, faulted>>

\* Step 6.5 on every story of at most MaxDocxParas paragraphs; the new
\* document has the styles the placed file brought, and may have a
\* "Body Text" of its own.
MaxDocxParas == 2

DocxStories ==
    SeqsUpTo({Para(<<"a">>, sn) : sn \in {HeadingName(1), HeadingName(2), NormalName,
                                            ListParagraphName}}, MaxDocxParas)

DocxInit ==
    /\ pc = "docxStyles"
    /\ charStyles = {}
    /\ tableStyles = {}
    /\ styles = NoStyles
    /\ \E s \in DocxStories :
          /\ Flowed(s)
          /\ atPassA = s
          /\ atPassB = <<>>
          /\ \E own \in SUBSET {BodyTextName} :
                registry = {paragraphs[n].style : n \in 1..Len(s)} \cup own
    /\ i = 0 /\ j = 0 /\ k = 0 /\ t = 0 /\ h = 0

DocxNext == DocxCreateOrGet \/ DocxMapStyles

DocxSpec == DocxInit /\ [][DocxNext]_vars

-----------------------------------------------------------------------------
(* The stages after the pagination (811-933), on a story the pagination    *)
(* has just fitted, in a template whose styles may set larger type.        *)

MaxReflowParas == 2

\* A template whose body style sets a paragraph on a whole frame's lines.
TallBody == [sn \in {BodyName} |-> PageH]

ReflowStories ==
    SeqsUpTo({Para(txt, NormalName) : txt \in {<<"a">>, <<Bullet, SP, "a">>}},
             MaxReflowParas)

ReflowInit ==
    /\ pc = "styles"
    /\ registry = TargetNames \cup {NormalName}
    /\ charStyles = {HyperlinkStyleName}
    /\ tableStyles = {TableStyleName}
    /\ styles = NoStyles
    /\ styleLines \in {OneLine, TallBody}
    /\ \E s \in ReflowStories :
          /\ hasDoc = TRUE
          /\ importFile = "ok"
          /\ levelAtStart = "INTERACT_WITH_ALL"
          /\ originalInteractionLevel = "INTERACT_WITH_ALL"
          /\ level = "NEVER_INTERACT"
          /\ pages = FlowedPages(Len(s))
          /\ pagesAtStart = 1
          /\ frames = FlowedFrames(Len(s))
          /\ targetFrame = 1
          /\ paragraphs = s
          /\ imported = s
          /\ i = Len(s)
    /\ tables \in {<<>>, <<Table(NoTableStyle)>>}
    /\ hyperlinks \in {<<>>, LinksA}
    /\ atPassA = <<>>
    /\ atPassB = <<>>
    /\ j = 0 /\ k = 0 /\ t = 0 /\ h = 0
    /\ err = ""
    /\ outcome = "none"
    /\ faulted = {}
    /\ prevWasBullet = FALSE
    /\ styleEdits = {}

ReflowNext ==
    \/ GatherStyles \/ PassAStep \/ PassAThrows \/ PassAExit
    \/ PassBStep \/ PassBThrows \/ PassBExit
    \/ TableStep \/ TablesExit \/ LinkStep \/ LinksExit
    \/ Succeed \/ Catch \/ Finally

ReflowSpec == ReflowInit /\ [][ReflowNext]_vars

-----------------------------------------------------------------------------
(* Pagination (steps 4-6).                                                 *)

Chain == TextContainers(frames, targetFrame)

IsPrefix(a, b) == Len(a) <= Len(b) /\ SubSeq(b, 1, Len(a)) = a

\* C1: while the story is overset, one iteration appends exactly one page at
\* the end of the document, creates on it one frame whose bounds are the
\* page's bounds moved inwards by its margins, and threads that frame after
\* the last container of the story; the loop is left only when the story no
\* longer overflows.
C1_IterationAppendsAndLinks ==
    [][/\ (pc = "paginate" /\ pc' = "paginate") =>
            LET page == pages'[Len(pages')]
                frame == frames'[Len(frames')]
                old == Chain
            IN  /\ Overflows(frames, targetFrame, paragraphs)
                /\ Len(pages') = Len(pages) + 1
                /\ IsPrefix(pages, pages')
                /\ Len(frames') = Len(frames) + 1
                /\ frame.page = page.id
                /\ frame.gb = <<page.b[1] + page.m.top, page.b[2] + page.m.left,
                                page.b[3] - page.m.bottom, page.b[4] - page.m.right>>
                /\ frames'[old[Len(old)]].next = Len(frames')
                /\ TextContainers(frames', targetFrame') = Append(old, Len(frames'))
       /\ (pc = "paginate" /\ pc' = "collapse") =>
            ~Overflows(frames', targetFrame', paragraphs')]_vars

\* The loop was left after two iterations.
C1_Witness ==
    /\ pc = "collapse"
    /\ Len(pages) = pagesAtStart + 2
    /\ Len(Chain) = 3
    /\ ~Overflows(frames, targetFrame, paragraphs)

ContainerFulls(n, cap) == (n + cap - 1) \div cap

EqualCapacity(cap) == \A n \in 1..Len(Chain) : Capacity(frames[Chain[n]]) = cap

\* C2: when the placed story needs exactly kk container-fulls (kk >= 1, every
\* container of the same positive capacity), pagination ends with kk - 1 pages
\* added after the template's pages, the kk containers threaded in the order
\* of those pages (the first container on the first page), and the story not
\* overflowing.
C2_PagesForContainerFulls ==
    pc = "collapse" =>
        LET cap == Capacity(frames[targetFrame])
            kk == ContainerFulls(Len(paragraphs), cap)
        IN  (Len(paragraphs) >= 1 /\ cap > 0 /\ EqualCapacity(cap)) =>
                /\ Len(pages) = pagesAtStart + kk - 1
                /\ Len(Chain) = kk
                /\ frames[Chain[1]].page = pages[1].id
                /\ \A n \in 2..Len(Chain) :
                      frames[Chain[n]].page = pages[pagesAtStart + n - 1].id
                /\ ~Overflows(frames, targetFrame, paragraphs)

\* A story of three container-fulls was paginated.
C2_Witness ==
    /\ pc = "collapse"
    /\ Len(paragraphs) = 3
    /\ Capacity(frames[targetFrame]) = 1
    /\ EqualCapacity(1)
    /\ Len(pages) = pagesAtStart + 2

\* The frames the loop creates have no usable area.
NoUsableArea == Capacity(createFrameInsideMargins(pages[Len(pages)])) = 0

\* C3: when frames are created with zero usable area, the pagination loop
\* stops at an explicit cap and reports the failure, instead of adding pages
\* without end: it is never still running with MaxPages pages in the document.
C3_LoopIsCapped ==
    (pc = "paginate" /\ NoUsableArea /\ Overflows(frames, targetFrame, paragraphs)) =>
        Len(pages) < MaxPages

ChainOrdered ==
    \A n \in 2..Len(Chain) :
        PageIndex(pages, frames[Chain[n - 1]].page) < PageIndex(pages, frames[Chain[n]].page)

\* C4: the script never removes or reorders a page (the pages of every state
\* are a prefix of the pages of the next), and the chained containers sit on
\* pages of strictly increasing position.
C4_PagesOnlyGrow ==
    [][IsPrefix(pages, pages')]_vars /\ []ChainOrdered

\* A run that added two pages and ended.
C4_Witness ==
    /\ pc = "done"
    /\ Len(pages) = pagesAtStart + 2
    /\ Len(Chain) = 3

-----------------------------------------------------------------------------
(* Interaction level (steps 2 and 16).                                     *)

\* C5: on every way out of the script (success, no file chosen or file
\* missing, no story, an exception of any stage, no open document) the
\* interaction level is the one found at invocation.
C5_LevelRestored ==
    pc \in {"done", "exited"} => level = levelAtStart

\* The script ended after a stage threw, having suppressed dialogs.
C5_Witness ==
    /\ pc = "done"
    /\ outcome = "fatal"
    /\ faulted # {}
    /\ levelAtStart = "INTERACT_WITH_ALL"
    /\ originalInteractionLevel = "INTERACT_WITH_ALL"

-----------------------------------------------------------------------------
(* The sanitizer (steps 7 and 8).                                          *)

Clean(c) == c # <<>> /\ ~IsSpace(c[1]) /\ ~IsSpace(c[Len(c)])

WhitespaceOnly(c) == c # <<>> /\ StripSpace(c) = <<>>

\* C6: when the trim-and-prune loop has run to its end without a host call
\* throwing, every remaining paragraph is non-empty, holds more than
\* whitespace, and neither starts nor ends with whitespace, the paragraph
\* that moved into a removed paragraph's position included.
C6_NoBlankNoUntrimmed ==
    (pc = "styles" /\ "trim" \notin faulted) =>
        \A n \in 1..Len(paragraphs) :
            /\ StripSpace(paragraphs[n].contents) # <<>>
            /\ Clean(paragraphs[n].contents)

\* The pass removed two neighbouring whitespace-only paragraphs and kept one
\* paragraph of text.
C6_Witness ==
    /\ pc = "styles"
    /\ faulted = {}
    /\ Len(paragraphs) = 1
    /\ \E n \in 1..(Len(imported) - 1) :
          WhitespaceOnly(imported[n].contents) /\ WhitespaceOnly(imported[n + 1].contents)

Chars(paras) == LET toks == Flatten(paras) IN [n \in 1..Len(toks) |-> toks[n].c]

Contents(paras) == [n \in 1..Len(paras) |-> paras[n].contents]

RECURSIVE Keeping(_, _, _)
Keeping(seq, Keep(_, _), n) ==
    IF n > Len(seq) THEN <<>>
    ELSE (IF Keep(seq, n) THEN <<seq[n]>> ELSE <<>>) \o Keeping(seq, Keep, n + 1)

\* a return that follows a return is dropped
FirstOfRun(txt, n) == ~(txt[n] = CR /\ n > 1 /\ txt[n - 1] = CR)

\* an empty paragraph that follows an empty paragraph is dropped
FirstOfBlanks(cs, n) == ~(cs[n] = <<>> /\ n > 1 /\ cs[n - 1] = <<>>)

CollapseRan == pc = "collapse" /\ pc' = "trim" /\ faulted' = faulted

\* C7, as amended: the collapse replaces each maximal run of two or more
\* consecutive paragraph returns by exactly one return and changes no other
\* character, so no empty paragraph is left after a paragraph (a run of
\* empty paragraphs at the very start of the story leaves one).
C7_RunsOfReturnsBecomeOne ==
    [][CollapseRan =>
          Chars(paragraphs') = Keeping(Chars(paragraphs), FirstOfRun, 1)]_vars

\* C7, as stated: the collapse leaves exactly one empty paragraph where the
\* story had two or more consecutive empty paragraphs, and changes nothing
\* else.
C7_OneBlankParagraphRemains ==
    [][CollapseRan =>
          Contents(paragraphs') = Keeping(Contents(paragraphs), FirstOfBlanks, 1)]_vars

\* The collapse met two empty paragraphs after a paragraph of text and left
\* neither.
C7_Witness ==
    /\ pc = "trim"
    /\ i = 0
    /\ faulted = {}
    /\ Len(imported) = 3
    /\ imported[1].contents = <<"a">>
    /\ imported[2].contents = <<>>
    /\ imported[3].contents = <<>>
    /\ Contents(paragraphs) = <<(<<"a">>)>>

\* C8: sanitizing the output of a sanitizer run in which no host call threw
\* changes nothing.
C8_SanitizeIdempotent ==
    (pc = "styles" /\ faulted = {}) => Sanitize(paragraphs) = paragraphs

\* A run that changed the story: it trimmed one paragraph and dropped another.
C8_Witness ==
    /\ pc = "styles"
    /\ faulted = {}
    /\ paragraphs # <<>>
    /\ Len(paragraphs) < Len(imported)
    /\ \E n \in 1..Len(imported) :
          imported[n].contents # TrimBoth(imported[n].contents)
              /\ StripSpace(imported[n].contents) # <<>>

-----------------------------------------------------------------------------
(* Pass A (steps 9-11).                                                    *)

PassADone == pc = "passB" /\ k = 0

IsHeading(srcName, n) == Fold(srcName) = Fold(HeadingName(n))

\* C9, as amended: for N in 1..6, a paragraph whose source style name is
\* "Heading N", letter case ignored, ends Pass A with the style "Heading N"
\* when that style is registered; when it is not, the paragraph ends Pass A
\* with the body style if the body style is registered, and with the style
\* it had only if the body style is unregistered too.
C9_HeadingOrBodyFallback ==
    PassADone =>
        \A n \in 1..Len(paragraphs), lvl \in HeadingLevels :
            IsHeading(atPassA[n].style, lvl) =>
                paragraphs[n].style =
                    IF HeadingName(lvl) \in registry THEN HeadingName(lvl)
                    ELSE IF BodyName \in registry THEN BodyName
                    ELSE atPassA[n].style

\* C9, as stated: ... when "Heading N" is unregistered, the paragraph ends
\* Pass A with the style it had before Pass A.
C9_UnregisteredHeadingUnchanged ==
    PassADone =>
        \A n \in 1..Len(paragraphs), lvl \in HeadingLevels :
            IsHeading(atPassA[n].style, lvl) =>
                paragraphs[n].style =
                    IF HeadingName(lvl) \in registry THEN HeadingName(lvl)
                    ELSE atPassA[n].style

\* Pass A ended with a "heading 3" paragraph in a template that has no
\* "Heading 3" but has the body style.
C9_Witness ==
    /\ PassADone
    /\ HeadingName(3) \notin registry
    /\ BodyName \in registry
    /\ \E n \in 1..Len(paragraphs) :
          atPassA[n].style = LowerHeadingName(3) /\ paragraphs[n].style = BodyName

MatchesHeadingRule(srcName) == \E lvl \in HeadingLevels : TestI(HeadingName(lvl), srcName)

\* C10: a paragraph whose source style name is "Normal", is absent, or
\* matches no heading rule ends Pass A with the body style when the body
\* style is registered, and with the style it had when it is not.
C10_BodyMapping ==
    PassADone =>
        \A n \in 1..Len(paragraphs) :
            LET srcName == atPassA[n].style
            IN  (srcName = NormalName \/ srcName = NoName \/ ~MatchesHeadingRule(srcName)) =>
                    paragraphs[n].style =
                        IF BodyName \in registry THEN BodyName ELSE srcName

\* Pass A ended with a "List Paragraph" paragraph now in the body style and a
\* paragraph without a style name.
C10_Witness ==
    /\ PassADone
    /\ BodyName \in registry
    /\ \E n \in 1..Len(paragraphs) :
          atPassA[n].style = ListParagraphName /\ paragraphs[n].style = BodyName
    /\ \E n \in 1..Len(paragraphs) : atPassA[n].style = NoName

-----------------------------------------------------------------------------
(* The bullet repair (step 12).                                            *)

PassBDone == pc = "tables" /\ t = 0

BulletStyleNames == {BulletsName, SubBulletsName}

\* Step 12 classified paragraph n: it edited it and left it in a bullet style.
Classified(n) == paragraphs[n] # atPassB[n] /\ paragraphs[n].style \in BulletStyleNames

AnyGlyph == PrimaryGlyphs \cup SubBulletGlyphs

\* rest is what is left of txt when its first character and all the
\* whitespace directly after it are taken away
IsStrippedOf(rest, txt) ==
    /\ txt # <<>>
    /\ \E n \in 1..Len(txt) :
          /\ \A m \in 2..n : IsSpace(txt[m])
          /\ rest = SubSeq(txt, n + 1, Len(txt))
    /\ (rest # <<>> => ~IsSpace(rest[1]))

IsHeadingStyle(name) == \E lvl \in HeadingLevels : name = HeadingName(lvl)

\* txt is one glyph of the set, then whitespace, then the text body
IsGlyphSpaceBody(txt, glyphs, body) ==
    /\ Len(txt) >= 3
    /\ txt[1] \in glyphs
    /\ body # <<>>
    /\ ~IsSpace(body[1])
    /\ \E n \in 2..(Len(txt) - 1) :
          /\ \A m \in 2..n : IsSpace(txt[m])
          /\ body = SubSeq(txt, n + 1, Len(txt))

\* the glyphs of a primary bullet: filled bullet, black circle, the symbol
\* font's bullet, bullet operator, middle dot, hyphen and en dash (the small
\* open circle counts as a sub-bullet glyph)
PrimaryOnly == {"U2022", "U25CF", "UF0B7", "U2219", "U00B7", "-", "U2013"}

\* C12: a non-heading paragraph whose text is a primary bullet glyph, then
\* whitespace, then a body text, ends step 12 with exactly the body text as
\* its content, the bullet style applied and the list type set to bullet
\* list, when the bullet style is registered.
C12_PrimaryBulletRepaired ==
    PassBDone =>
        \A n \in 1..Len(paragraphs) :
            LET txt == atPassB[n].contents
                body == paragraphs[n].contents
            IN  (/\ BulletsName \in registry
                 /\ ~IsHeadingStyle(atPassB[n].style)
                 /\ \E m \in 3..Len(txt) :
                       IsGlyphSpaceBody(txt, PrimaryOnly, SubSeq(txt, m, Len(txt)))) =>
                    /\ IsGlyphSpaceBody(txt, PrimaryOnly, body)
                    /\ paragraphs[n].style = BulletsName
                    /\ paragraphs[n].listType = "BULLET_LIST"

\* Step 12 ended with a body-style paragraph "bullet, space, a" now holding
\* "a" in the bullet style as a bullet list item.
C12_Witness ==
    /\ PassBDone
    /\ \E n \in 1..Len(paragraphs) :
          /\ atPassB[n] = Mapped(<<Bullet, SP, "a">>, BodyName)
          /\ paragraphs[n].contents = <<"a">>
          /\ paragraphs[n].style = BulletsName
          /\ paragraphs[n].listType = "BULLET_LIST"

\* Step 12 has written to paragraph n.
Touched(n) == paragraphs[n] # atPassB[n]

-----------------------------------------------------------------------------
(* Hyperlinks (step 14).                                                   *)

LinksDone == pc = "alert"

UrlSchemes == {"http", "https", "mailto", "ftp"}

\* C14: when step 14 has ended without a swallowed exception, a hyperlink
\* has the hyperlink character style on its source text if and only if the
\* style is registered, the destination is a URL destination or has an
\* address that begins with http, https, mailto or ftp, and the source is a
\* text source of positive length; every other link is as it was, and no
\* error was raised.
C14_StyledIffUrlAndText ==
    (LinksDone /\ "links" \notin faulted) =>
        /\ err = ""
        /\ \A n \in 1..Len(hyperlinks) :
              LET link == hyperlinks[n]
              IN  link.charStyle = HyperlinkStyleName
                      <=> /\ HyperlinkStyleName \in charStyles
                          /\ link.dest = "URL" \/ link.url \in UrlSchemes
                          /\ link.src = "TEXT"
                          /\ link.len > 0

\* Step 14 ended with a styled https link on text and an unstyled link to a
\* page.
C14_Witness ==
    /\ LinksDone
    /\ faulted = {}
    /\ Len(hyperlinks) = 2
    /\ \E n \in 1..2 :
          hyperlinks[n] = [Link("URL", "https", "TEXT", 1) EXCEPT !.charStyle = HyperlinkStyleName]
    /\ \E n \in 1..2 : hyperlinks[n] = Link("PAGE", "none", "TEXT", 1)

-----------------------------------------------------------------------------
(* Tables (step 13).                                                       *)

TablesDone == pc = "links" /\ h = 0

\* C15: when the document has the table style and step 13 has ended, every
\* table of the story has that table style; when it has not, no table's
\* style was changed and no error was raised.
C15_EveryTableStyled ==
    TablesDone =>
        /\ TableStyleName \in tableStyles =>
              \A n \in 1..Len(tables) : tables[n].style = TableStyleName
        /\ TableStyleName \notin tableStyles =>
              /\ \A n \in 1..Len(tables) : tables[n].style # TableStyleName
              /\ err = ""

-----------------------------------------------------------------------------
(* Failures of single records.                                             *)

PerRecordStages == {"trim", "passA", "clearA", "passB", "clearB", "tables", "links"}

\* C16: a run in which the only failures were operations on single
\* paragraphs, tables or hyperlinks (in the trim, Pass A, Pass B, the table
\* styling or the hyperlink styling) ends with the success outcome.
C16_RecordFailureStillSucceeds ==
    (pc = "done" /\ faulted # {} /\ faulted \subseteq PerRecordStages) =>
        outcome = "success"

-----------------------------------------------------------------------------
(* Cancelling the file dialog.                                             *)

\* C17: a run in which no file was selected ends with the document as it
\* was (pages, frames, paragraphs) and with an outcome that is not the
\* fatal one.
C17_CancelIsNotFatal ==
    (pc = "done" /\ importFile = "null") =>
        /\ Len(pages) = pagesAtStart
        /\ targetFrame = 0
        /\ paragraphs = <<>>
        /\ outcome # "fatal"

-----------------------------------------------------------------------------
(* Headings in Pass B.                                                     *)

\* C18: when Pass B has ended, every paragraph that had a heading style
\* before it has the content, the style and the list flag it had before it.
C18_HeadingsUntouched ==
    PassBDone =>
        \A n \in 1..Len(atPassB) :
            IsHeadingStyle(atPassB[n].style) => paragraphs[n] = atPassB[n]

-----------------------------------------------------------------------------
(* The evidence for a bullet.                                              *)

IsBullet(n) == paragraphs[n].style \in BulletStyleNames

NativeFlag(n) == atPassB[n].listType = "BULLET_LIST"

LeadingGlyph(n) ==
    atPassB[n].contents # <<>> /\ Head(atPassB[n].contents) \in AnyGlyph \cup {"-", "U2013"}

PositiveIndent(n) == atPassB[n].leftIndent > 0

LeadingTab(n) ==
    /\ atPassB[n].contents # <<>>
    /\ Head(atPassB[n].contents) = TAB
    /\ \/ atPassB[n].style = ListParagraphName
       \/ n > 1 /\ IsBullet(n - 1)

\* C19: when Pass B has ended, a paragraph that is not a heading has a
\* bullet style exactly when it came with the native list flag, or with a
\* leading bullet glyph, or with a positive left indent, or with a leading
\* tab in a list-like style or after a bullet.
C19_BulletIffSignal ==
    PassBDone =>
        \A n \in 1..Len(atPassB) :
            ~IsHeadingStyle(atPassB[n].style) =>
                (IsBullet(n) <=> (NativeFlag(n) \/ LeadingGlyph(n) \/ PositiveIndent(n) \/ LeadingTab(n)))

-----------------------------------------------------------------------------
(* Sub-bullet glyphs go first.                                             *)

SubOnly == {"U25CB", "U25E6", "o"}

\* C20: when Pass B has ended without an exception and the template has
\* the sub-bullet style, every paragraph that began with an open circle, a
\* small circle (U+25E6) or a lowercase "o" has the sub-bullet style, and
\* so not the primary bullet style.
C20_SubBulletFirst ==
    (PassBDone /\ "passB" \notin faulted /\ SubBulletsName \in registry) =>
        \A n \in 1..Len(atPassB) :
            (atPassB[n].contents # <<>> /\ Head(atPassB[n].contents) \in SubOnly) =>
                /\ paragraphs[n].style = SubBulletsName
                /\ paragraphs[n].style # BulletsName

\* Pass B ended in a template with both styles, and a paragraph that began
\* with the small circle, which the primary set lists too, is a sub-bullet.
C20_Witness ==
    /\ PassBDone
    /\ {BulletsName, SubBulletsName} \subseteq registry
    /\ \E n \in 1..Len(atPassB) :
          /\ atPassB[n].contents = <<"U25E6", SP, "a">>
          /\ paragraphs[n].style = SubBulletsName
          /\ paragraphs[n].contents = <<"a">>

-----------------------------------------------------------------------------
(* The rolling flag of normalizeBulletsAndLists.                           *)

ListDone == pc = "tables" /\ t = 0

HeadingOrTable(sn) ==
    \/ \E d \in {"1", "2", "3", "4", "5", "6", "7", "8", "9"} :
          Fold(sn) = <<"h", "e", "a", "d", "i", "n", "g", " ", d>>
    \/ Len(sn) >= 5 /\ SubSeq(Fold(sn), 1, 5) = <<"t", "a", "b", "l", "e">>

TabLed(n) == atPassB[n].contents # <<>> /\ Head(atPassB[n].contents) = TAB

ListLike(sn) == sn \in {ListParagraphName, BulletsName, SubBulletsName}

\* C21 (flag): a step of the loop over a heading or table paragraph leaves
\* the flag false, and a step that leaves the flag true has just made its
\* paragraph a bullet.
C21_FlagFollowsLastParagraph ==
    (pc = "listB" /\ k' = k + 1) =>
        /\ HeadingOrTable(paragraphs[k + 1].style) => ~prevWasBullet'
        /\ prevWasBullet' =>
              /\ ~HeadingOrTable(paragraphs[k + 1].style)
              /\ paragraphs'[k + 1].listType = "BULLET_LIST"

\* C21 (consequence): when the loop has ended, a paragraph that began with
\* a tab, has no list-like style and no native list flag, and directly
\* follows a heading or table paragraph, is as it was.
C21_NoContextAfterHeading ==
    ListDone =>
        \A n \in 2..Len(atPassB) :
            (/\ HeadingOrTable(atPassB[n - 1].style)
             /\ TabLed(n)
             /\ ~ListLike(atPassB[n].style)
             /\ atPassB[n].listType # "BULLET_LIST") => paragraphs[n] = atPassB[n]

\* C21: the rolling flag is false after every heading or table paragraph
\* and true only after a paragraph just classified as a bullet, so a
\* tab-led paragraph right after a heading or table paragraph is not made a
\* bullet by the flag.
C21_FlagResetAtBoundary ==
    [][C21_FlagFollowsLastParagraph]_vars /\ []C21_NoContextAfterHeading

\* The loop ended on a story in which a bullet is followed by a heading and
\* the heading by a tab-led body paragraph that was left as it was.
C21_Witness ==
    /\ ListDone
    /\ Len(atPassB) = 3
    /\ atPassB[1].contents = <<Bullet, SP, "a">>
    /\ paragraphs[1].listType = "BULLET_LIST"
    /\ atPassB[2].style = HeadingName(1)
    /\ atPassB[3] = Mapped(<<TAB, "a">>, BodyName)
    /\ paragraphs[3] = atPassB[3]
    /\ ~prevWasBullet

-----------------------------------------------------------------------------
(* The order of the rules of Pass A.                                       *)

BothPatterns(sn, lvl) ==
    /\ TestI(<<"H", "e", "a", "d", "i", "n", "g", " ", Digit(lvl)>>, sn)
    /\ TestI(<<"N", "o", "r", "m", "a", "l">>, sn)

\* C22: when Pass A has ended, a paragraph whose source style name matches
\* the pattern of a registered heading style and "Normal" as well has that
\* heading style, which is also what the headings-first chain gives it.
C22_HeadingRuleFirst ==
    PassADone =>
        \A n \in 1..Len(atPassA) :
            \A lvl \in 1..3 :
                (BothPatterns(atPassA[n].style, lvl) /\ HeadingName(lvl) \in registry) =>
                    /\ paragraphs[n].style = HeadingName(lvl)
                    /\ paragraphs[n].style = MapStyleHeadingsFirst(atPassA[n].style, styles)

-----------------------------------------------------------------------------
(* Paragraphs without evidence.                                            *)

NoSignal(n) ==
    ~(NativeFlag(n) \/ LeadingGlyph(n) \/ PositiveIndent(n) \/ LeadingTab(n))

\* C23: when Pass B has ended, a paragraph that came with no native list
\* flag, no leading bullet glyph, no left indent and no leading tab has the
\* style, the content and the list flag it had when Pass A ended.
C23_NoSignalUnchanged ==
    PassBDone =>
        \A n \in 1..Len(atPassB) : NoSignal(n) => paragraphs[n] = atPassB[n]

\* Pass B ended on a story with a bullet that was repaired and a plain body
\* paragraph that was left alone.
C23_Witness ==
    /\ PassBDone
    /\ Len(atPassB) = 2
    /\ atPassB[1].contents = <<Bullet, SP, "a">>
    /\ paragraphs[1].style = BulletsName
    /\ atPassB[2] = Mapped(<<"a">>, BodyName)
    /\ paragraphs[2] = atPassB[2]

-----------------------------------------------------------------------------
(* Overrides in Pass A.                                                    *)

\* no branch of the chain of Pass A has a registered style for the name
NoTarget(sn) ==
    /\ BodyName \notin registry
    /\ \A lvl \in 1..6 :
          TestI(<<"H", "e", "a", "d", "i", "n", "g", " ", Digit(lvl)>>, sn)
              => HeadingName(lvl) \notin registry

\* C24 (as stated): when Pass A has ended, a paragraph whose style was
\* reassigned has no overrides (unless clearOverrides failed), and a
\* paragraph for which no target style is registered is exactly as it was.
C24_SkippedUntouched ==
    PassADone =>
        \A n \in 1..Len(atPassA) :
            IF NoTarget(atPassA[n].style)
            THEN paragraphs[n] = atPassA[n]
            ELSE "clearA" \notin faulted => ~paragraphs[n].overrides

\* C24 (amended): when Pass A has ended and clearOverrides has not failed,
\* no paragraph has overrides, reassigned or not; a paragraph for which no
\* target style is registered has the style, the content and the list flag
\* it had, and a paragraph for which one is has a registered style.
C24_OverridesClearedAlways ==
    PassADone =>
        \A n \in 1..Len(atPassA) :
            /\ "clearA" \notin faulted => ~paragraphs[n].overrides
            /\ IF NoTarget(atPassA[n].style)
               THEN /\ paragraphs[n].style = atPassA[n].style
                    /\ paragraphs[n].contents = atPassA[n].contents
                    /\ paragraphs[n].listType = atPassA[n].listType
               ELSE paragraphs[n].style \in registry

\* Pass A ended in a template without the body style: a paragraph that is
\* not a heading kept its style and lost its overrides.
C24_Witness ==
    /\ PassADone
    /\ faulted = {}
    /\ BodyName \notin registry
    /\ \E n \in 1..Len(atPassA) :
          /\ atPassA[n].style = ListParagraphName
          /\ atPassA[n].overrides
          /\ paragraphs[n] = [atPassA[n] EXCEPT !.overrides = FALSE]

-----------------------------------------------------------------------------
(* The styles of the document.                                             *)

\* C25: no step adds a paragraph, character or table style to the
\* document, removes one from it, or writes to the definition of one.
C25_RegistryReadOnly ==
    [][/\ registry' = registry
       /\ charStyles' = charStyles
       /\ tableStyles' = tableStyles
       /\ styleEdits' = styleEdits]_vars

-----------------------------------------------------------------------------
(* The order of the two sanitizer passes.                                  *)

\* F applied again and again until it changes nothing (each round that
\* changes the story removes a character of it)
RECURSIVE ToFixedPoint(_, _, _)
ToFixedPoint(F(_), paras, fuel) ==
    LET next == F(paras)
    IN  IF next = paras \/ fuel = 0 THEN next ELSE ToFixedPoint(F, next, fuel - 1)

CollapseFirst(paras) == ToFixedPoint(Sanitize, paras, Len(Flatten(paras)))

TrimFirst(paras) == ToFixedPoint(TrimThenCollapse, paras, Len(Flatten(paras)))

\* C26: when the sanitizer has ended without a host call throwing, the
\* story is what collapse-then-trim repeated to a fixed point makes of the
\* imported story, and also what trim-then-collapse repeated to a fixed
\* point makes of it.
C26_OrderInsensitive ==
    (pc = "styles" /\ faulted = {}) =>
        /\ paragraphs = CollapseFirst(imported)
        /\ paragraphs = TrimFirst(imported)
        /\ CollapseReturns(paragraphs) = paragraphs
        /\ TrimLoop(paragraphs, 0) = paragraphs

\* The sanitizer ended on a story that both passes change, each in its own
\* way: it had an empty paragraph after a paragraph and a paragraph of
\* spaces.
C26_Witness ==
    /\ pc = "styles"
    /\ faulted = {}
    /\ paragraphs # <<>>
    /\ CollapseReturns(imported) # imported
    /\ TrimLoop(imported, 0) # imported
    /\ CollapseReturns(imported) # TrimLoop(imported, 0)
    /\ \E n \in 1..Len(imported) : WhitespaceOnly(imported[n].contents)

-----------------------------------------------------------------------------
(* Termination of the trim loop.                                           *)

\* paragraphs the loop has still to visit
Unvisited == Len(paragraphs) - i

\* C27 (iteration): every iteration of the trim loop, whether it trims,
\* removes or fails, leaves exactly one paragraph less to visit.
C27_OneLessToVisit ==
    (pc = "trim" /\ pc' = "trim") =>
        Len(paragraphs') - i' = Unvisited - 1

\* C27 (bound): inside the loop the index is within the story, and what is
\* left to visit is never more than the story had when it was imported.
C27_WithinStory ==
    pc = "trim" => (i \in 0..Len(paragraphs) /\ Unvisited <= Len(imported))

\* C27: the trim loop ends on every story, after at most as many
\* iterations as the story had paragraphs.
C27_TrimLoopTerminates ==
    /\ [][C27_OneLessToVisit]_vars
    /\ []C27_WithinStory
    /\ (pc = "trim") ~> (pc = "styles")

\* The loop ended after a removal and a swallowed failure.
C27_Witness ==
    /\ pc = "styles"
    /\ faulted = {"trim"}
    /\ paragraphs # <<>>
    /\ Len(paragraphs) < Len(imported)

-----------------------------------------------------------------------------
(* Overflow at the end of the run.                                         *)

\* C28: a run that ends with the success outcome ends with a story that
\* does not overflow its chain of frames.
C28_NoOverflowAtSuccess ==
    (pc = "done" /\ outcome = "success") =>
        ~Overflows(frames, targetFrame, paragraphs)

-----------------------------------------------------------------------------
(* The list-like style test after the style mapping.                       *)

HeadingOrBody(sn) ==
    sn = <<"B", "o", "d", "y">>
        \/ \E d \in {"1", "2", "3", "4", "5", "6"} :
              sn = <<"H", "e", "a", "d", "i", "n", "g", " ", d>>

ListyName(sn) ==
    TestI(<<"l", "i", "s", "t">>, sn) \/ TestI(<<"b", "u", "l", "l", "e", "t">>, sn)

\* C29: in a template with the body style, when the bullet step starts
\* every paragraph has a heading style or the body style; the paragraph the
\* step is about to examine never has a list-like style name; and when the
\* step has ended, a paragraph that began with a tab and had no native list
\* flag was made a bullet only if the paragraph before it was not skipped
\* and was made a bullet.
C29_ListyTestNeverFires ==
    BodyName \in registry =>
        /\ (pc = "listB" /\ k = 0) =>
              \A n \in 1..Len(paragraphs) : HeadingOrBody(paragraphs[n].style)
        /\ (pc = "listB" /\ k < Len(paragraphs)) => ~ListyName(paragraphs[k + 1].style)
        /\ ListDone =>
              \A n \in 1..Len(atPassB) :
                  (TabLed(n) /\ atPassB[n].listType # "BULLET_LIST" /\ paragraphs[n] # atPassB[n]) =>
                      /\ n > 1
                      /\ ~HeadingOrTable(atPassB[n - 1].style)
                      /\ paragraphs[n - 1].listType = "BULLET_LIST"

\* The bullet step ended in a template with the body style on a story whose
\* second paragraph came as a tab-led "List Paragraph", was mapped to the
\* body style, and was made a bullet because the paragraph before it was.
C29_Witness ==
    /\ ListDone
    /\ BodyName \in registry
    /\ Len(atPassA) >= 2
    /\ atPassA[1].contents = <<Bullet, SP, "a">>
    /\ atPassA[2] = Para(<<TAB, "a">>, ListParagraphName)
    /\ atPassB[2].style = BodyName
    /\ atPassB[2].contents = <<TAB, "a">>
    /\ paragraphs[2].listType = "BULLET_LIST"
    /\ paragraphs[2].contents = <<"a">>

-----------------------------------------------------------------------------
(* Body text that begins like a bullet prefix.                             *)

\* Paragraph n began with a lowercase "o" or a hyphen directly followed by
\* a letter, and carried no native list flag and no indent.
WordLed(n) ==
    /\ Len(atPassB[n].contents) >= 2
    /\ atPassB[n].contents[1] \in {"o", "-"}
    /\ atPassB[n].contents[2] = "a"
    /\ atPassB[n].listType # "BULLET_LIST"
    /\ atPassB[n].leftIndent = 0

\* C30: when the bullet step has ended, a paragraph that began with an
\* ordinary word (an "o" or a hyphen directly followed by a letter) has the
\* text and the style it had when the step started.
C30_WordsUntouched ==
    PassBDone =>
        \A n \in 1..Len(atPassB) :
            WordLed(n) =>
                /\ paragraphs[n].contents = atPassB[n].contents
                /\ paragraphs[n].style = atPassB[n].style

====
